---- MODULE Spec2Model ----
(***************************************************************************)
(* List-LCA: CSV upload, column mapping, catalog matching (POST            *)
(* /api/lca-data), and the processed-row table with manual material        *)
(* re-assignment, density edit and row deletion.                           *)
(*                                                                         *)
(* Representation.  A JavaScript string is a sequence of one-character     *)
(* strings.  A JavaScript number is an integer counting thousandths        *)
(* (Scale); products are rescaled by Mul.  An optional value (undefined,   *)
(* null, NaN) is the empty sequence, a present value v is <<v>>.           *)
(***************************************************************************)
EXTENDS Integers, Sequences, FiniteSets, TLC

VARIABLES
    csvData,            \* useState<string[][]>: parsed CSV body rows
    columns,            \* useState<string[]>: header row
    originalRowData,    \* useState<Record<string,string>[]>
    mappedData,         \* useState<MaterialData[]>: the processed rows
    error,              \* useState<string|null>
    isLoading,          \* useState<boolean>
    showColumnMapper,   \* useState<boolean>
    currentStep,        \* useState<1|2|3>
    collapsedSections,  \* useState<{upload, mapper}>
    mappingSummary,     \* useState<{element, material, quantity, unit}|null>
    mapper,             \* the mounted ColumnMapper's local state, or unmounted
    inflight,           \* handleColumnMapping invocations suspended at the await
    nextReq,            \* number of submissions made so far
    nInputs,            \* number of uploads, selections, submissions and edits so far
    uploaded,           \* history: a CSV has been uploaded
    submitted,          \* history: the mapping and unit of the latest submission
    last,               \* history: the last operation and what it acted on
    postData,           \* POST: the request body
    postEnv,            \* POST: what the catalog service and Fuse answer
    postOut,            \* POST: the response
    fnIn,               \* a function applied on its own: its arguments
    fnOut               \* a function applied on its own: its result

vars == <<csvData, columns, originalRowData, mappedData, error, isLoading,
          showColumnMapper, currentStep, collapsedSections, mappingSummary,
          mapper, inflight, nextReq, nInputs, uploaded, submitted, last, postData, postEnv, postOut,
          fnIn, fnOut>>

appVars == <<csvData, columns, originalRowData, mappedData, error, isLoading,
             showColumnMapper, currentStep, collapsedSections, mappingSummary,
             mapper, inflight, nextReq, nInputs, uploaded, submitted, last>>

postVars == <<postData, postEnv, postOut>>

fnVars == <<fnIn, fnOut>>

pureVars == <<postData, postEnv, postOut, fnIn, fnOut>>

-----------------------------------------------------------------------------
(* Bounds *)

MaxInputs == 3   \* most uploads, selections, submissions and table edits in one behaviour
MaxItems == 2    \* most items of a POST body explored on its own
MaxDensityRows == 2   \* most rows of a table a density edit is applied to

-----------------------------------------------------------------------------
(* Numbers and strings *)

Scale == 10 ^ 3

\* a * b of two numbers in thousandths, term by term to stay within 32 bits
Mul(a, b) ==
    (a \div Scale) * b + (a % Scale) * (b \div Scale)
        + ((a % Scale) * (b % Scale)) \div Scale

None == <<>>

Some(v) == <<v>>

IsDigit(c) == c \in {"0", "1", "2", "3", "4", "5", "6", "7", "8", "9"}

DigitVal(c) ==
    CASE c = "0" -> 0 [] c = "1" -> 1 [] c = "2" -> 2 [] c = "3" -> 3
      [] c = "4" -> 4 [] c = "5" -> 5 [] c = "6" -> 6 [] c = "7" -> 7
      [] c = "8" -> 8 [] c = "9" -> 9

IsSpace(c) == c \in {" ", "\t"}

\* String.prototype.trim
RECURSIVE TrimLeft(_)
TrimLeft(s) ==
    IF s # <<>> /\ IsSpace(Head(s)) THEN TrimLeft(Tail(s)) ELSE s

RECURSIVE TrimRight(_)
TrimRight(s) ==
    IF s # <<>> /\ IsSpace(s[Len(s)])
    THEN TrimRight(SubSeq(s, 1, Len(s) - 1)) ELSE s

Trim(s) == TrimRight(TrimLeft(s))

\* String.prototype.replace(/[set]/g, "")
RemoveAll(s, set) == SelectSeq(s, LAMBDA c : c \notin set)

\* (s.match(/c/g) || []).length
Count(s, c) == Len(SelectSeq(s, LAMBDA d : d = c))

\* String.prototype.lastIndexOf, 0-based, -1 when absent
LastIndexOf(s, c) ==
    IF \E i \in 1..Len(s) : s[i] = c
    THEN (CHOOSE i \in 1..Len(s) :
              s[i] = c /\ \A j \in (i + 1)..Len(s) : s[j] # c) - 1
    ELSE -1

\* String.prototype.replace(c, d): the first occurrence only
ReplaceFirst(s, c, d) ==
    IF \E i \in 1..Len(s) : s[i] = c
    THEN LET i == CHOOSE k \in 1..Len(s) :
                      s[k] = c /\ \A j \in 1..(k - 1) : s[j] # c
         IN  [s EXCEPT ![i] = d]
    ELSE s

\* the length of the run of digits of s that starts at position i
RECURSIVE DigitRun(_, _)
DigitRun(s, i) ==
    IF i <= Len(s) /\ IsDigit(s[i]) THEN 1 + DigitRun(s, i + 1) ELSE 0

\* the value of the digits s[i .. i+n-1]
RECURSIVE DigitsValue(_, _, _)
DigitsValue(s, i, n) ==
    IF n = 0 THEN 0
    ELSE 10 * DigitsValue(s, i, n - 1) + DigitVal(s[i + n - 1])

\* the first three fraction digits s[i .. i+n-1], in thousandths
FractionValue(s, i, n) ==
    LET d(k) == IF k <= n THEN DigitVal(s[i + k - 1]) ELSE 0
    IN  100 * d(1) + 10 * d(2) + d(3)

\* parseFloat: optional sign, digits, optional "." and digits; anything after
\* is ignored; None (NaN) when there is no digit.  No exponent notation.
parseFloat(str) ==
    LET s      == TrimLeft(str)
        neg    == s # <<>> /\ Head(s) = "-"
        signed == s # <<>> /\ Head(s) \in {"-", "+"}
        p      == IF signed THEN 2 ELSE 1
        n      == DigitRun(s, p)
        hasDot == p + n <= Len(s) /\ s[p + n] = "."
        m      == IF hasDot THEN DigitRun(s, p + n + 1) ELSE 0
        mag    == Scale * DigitsValue(s, p, n)
                    + (IF hasDot THEN FractionValue(s, p + n + 1, m) ELSE 0)
    IN  IF n = 0 /\ m = 0 THEN None
        ELSE Some(IF neg THEN 0 - mag ELSE mag)

\* x || y for an optional number: NaN and 0 are falsy
OrNumber(x, y) == IF x = None \/ x = Some(0) THEN y ELSE x[1]

\* Number -> decimal digits of a small natural (template literal ${index + 1})
RECURSIVE NatToString(_)
NatToString(n) ==
    LET d == <<"0", "1", "2", "3", "4", "5", "6", "7", "8", "9">>
    IN  IF n < 10 THEN <<d[n + 1]>>
        ELSE NatToString(n \div 10) \o <<d[(n % 10) + 1]>>

\* String.prototype.toUpperCase over the letters the model uses
UpperOf(c) ==
    CASE c = "a" -> "A" [] c = "b" -> "B" [] c = "c" -> "C" [] c = "d" -> "D"
      [] c = "e" -> "E" [] c = "f" -> "F" [] c = "g" -> "G" [] c = "h" -> "H"
      [] c = "i" -> "I" [] c = "j" -> "J" [] c = "k" -> "K" [] c = "l" -> "L"
      [] c = "m" -> "M" [] c = "n" -> "N" [] c = "o" -> "O" [] c = "p" -> "P"
      [] c = "q" -> "Q" [] c = "r" -> "R" [] c = "s" -> "S" [] c = "t" -> "T"
      [] c = "u" -> "U" [] c = "v" -> "V" [] c = "w" -> "W" [] c = "x" -> "X"
      [] c = "y" -> "Y" [] c = "z" -> "Z" [] OTHER -> c

toUpperCase(s) == [i \in 1..Len(s) |-> UpperOf(s[i])]

-----------------------------------------------------------------------------
(* Literals *)

sWall == <<"W", "a", "l", "l">>

sRoof == <<"R", "o", "o", "f">>

sBeton == <<"B", "e", "t", "o", "n">>

sHolz == <<"H", "o", "l", "z">>

sKies == <<"K", "i", "e", "s">>

sUnknownElement ==
    <<"U", "n", "k", "n", "o", "w", "n", " ", "E", "l", "e", "m", "e", "n", "t", " ">>

sUnknownMaterial ==
    <<"U", "n", "k", "n", "o", "w", "n", " ", "M", "a", "t", "e", "r", "i", "a", "l", " ">>

sNoMatchFoundFor ==
    <<"N", "o", " ", "m", "a", "t", "c", "h", " ", "f", "o", "u", "n", "d", " ",
      "f", "o", "r", ":", " ">>

sErrorFetchingData ==
    <<"E", "r", "r", "o", "r", " ", "f", "e", "t", "c", "h", "i", "n", "g", " ",
      "d", "a", "t", "a">>

-----------------------------------------------------------------------------
(* The catalog service: GET lcadata.ch/api/kbob/materials *)

\* a sample of the catalog: a kg record with density and all factors, a kg
\* record without density and without gwpTotal, and a record sold per m3
LcaMaterials ==
    << [uuid |-> "u1", nameDE |-> sBeton, nameFR |-> sBeton,
        density |-> <<"5", "0", "0">>, unit |-> "kg",
        ubp21Total |-> Some(50000), gwpTotal |-> Some(100),
        primaryEnergyNonRenewableTotal |-> Some(500)],
       [uuid |-> "u2", nameDE |-> sHolz, nameFR |-> sHolz,
        density |-> <<>>, unit |-> "kg",
        ubp21Total |-> Some(2000), gwpTotal |-> None,
        primaryEnergyNonRenewableTotal |-> Some(1000)],
       [uuid |-> "u3", nameDE |-> sKies, nameFR |-> sKies,
        density |-> <<"2", "0", "0", "0">>, unit |-> "m3",
        ubp21Total |-> Some(1000), gwpTotal |-> Some(10),
        primaryEnergyNonRenewableTotal |-> Some(100)] >>

\* lcaMaterials.filter((material) => material.unit === "kg")
kgMaterials == SelectSeq(LcaMaterials, LAMBDA m : m.unit = "kg")

\* x ?? 0
OrZero(x) == IF x = None THEN 0 ELSE x[1]

\* parseFloat(m.density || "0")
DensityOf(m) ==
    LET d == parseFloat(IF m.density = <<>> THEN <<"0">> ELSE m.density)
    IN  d[1]

\* availableMaterials: kgMaterials.map((m) => ({id, name, density, co2, ubp, kwh}))
availableMaterials ==
    [i \in 1..Len(kgMaterials) |->
        [id |-> kgMaterials[i].uuid,
         name |-> kgMaterials[i].nameDE,
         density |-> Some(DensityOf(kgMaterials[i])),
         densityMin |-> None,
         densityMax |-> None,
         co2 |-> OrZero(kgMaterials[i].gwpTotal),
         ubp |-> OrZero(kgMaterials[i].ubp21Total),
         kwh |-> OrZero(kgMaterials[i].primaryEnergyNonRenewableTotal)]]

\* Fuse scores the model draws, in thousandths; Fuse's own threshold is 0.6
FuseScores == {200, 400}

\* what fuse.search(term) can return as far as POST reads it: no result, or
\* a top-ranked record of kgMaterials with its score
FuseResults ==
    {None} \cup {Some([item |-> i, score |-> sc]) :
                    i \in 1..Len(kgMaterials), sc \in FuseScores}

\* the acceptance threshold of isGoodMatch, 0.4
GoodMatchThreshold == 400

\* a variant that also accepts a score of exactly 0.4
IsGoodMatchMutant(matchScore) ==
    matchScore # None /\ matchScore[1] <= GoodMatchThreshold

\* typeof matchScore === "number" && matchScore < 0.4
IsGoodMatch(matchScore) ==
    matchScore # None /\ matchScore[1] < GoodMatchThreshold

\* cleanedData: data.map((item, index) => ...)
CleanItem(item, index) ==
    [element  |-> IF item.element = <<>>
                  THEN sUnknownElement \o NatToString(index + 1)
                  ELSE item.element,
     material |-> IF item.material = <<>>
                  THEN sUnknownMaterial \o NatToString(index + 1)
                  ELSE item.material,
     quantity |-> OrNumber(Some(item.quantity), 0),
     unit     |-> IF item.unit = "" THEN "kg" ELSE item.unit]

\* the kg of a row, lines 136-141
RowKg(item, matched) ==
    IF item.unit = "m3" /\ matched # None
    THEN Mul(item.quantity, DensityOf(matched[1]))
    ELSE item.quantity

\* one element of dataWithLCA: cleanedData.map((item) => ...)
MatchRow(item, fuseResult) ==
    LET matched    == IF fuseResult # None
                      THEN Some(kgMaterials[fuseResult[1].item]) ELSE None
        matchScore == IF fuseResult # None
                      THEN Some(fuseResult[1].score) ELSE None
        good       == IsGoodMatch(matchScore) /\ matched # None
        kg         == RowKg(item, matched)
    IN  [element |-> item.element,
         material |-> item.material,
         quantity |-> item.quantity,
         unit |-> item.unit,
         kg |-> kg,
         density |-> IF matched # None THEN Some(DensityOf(matched[1]))
                     ELSE Some(0),
         densityMin |-> None,
         densityMax |-> None,
         co2 |-> IF good THEN Mul(OrZero(matched[1].gwpTotal), kg) ELSE 0,
         ubp |-> IF good THEN Mul(OrZero(matched[1].ubp21Total), kg) ELSE 0,
         kwh |-> IF good
                 THEN Mul(OrZero(matched[1].primaryEnergyNonRenewableTotal), kg)
                 ELSE 0,
         matchedMaterial |-> IF good THEN matched[1].nameDE
                             ELSE sNoMatchFoundFor \o item.material,
         matchScore |-> matchScore,
         searchTerm |-> Some(toUpperCase(item.material)),
         availableMaterials |-> availableMaterials]

\* what the route's own fetchLCAData meets: the catalog, or one of its throws
CatalogOutcomes == {"ok", "noApiKey", "apiError", "invalidFormat", "fetchFailed"}

\* export async function POST(req): the JSON response and its status
POST(data, env) ==
    IF env.catalog # "ok"
    THEN [status |-> 500, error |-> env.catalog, body |-> <<>>]
    ELSE [status |-> 200, error |-> "",
          body |-> [i \in 1..Len(data) |->
                       MatchRow(CleanItem(data[i], i - 1), env.fuse[i])]]

\* the answers the service can give to a body of n items
PostEnvs(n) ==
    [catalog : {"ok"}, fuse : [1..n -> FuseResults]]
        \cup [catalog : CatalogOutcomes \ {"ok"}, fuse : {[i \in 1..n |-> None]}]

\* request items the match step is explored on
PostItems ==
    {it \in [element : {sWall, <<>>}, material : {sBeton, <<>>},
             quantity : {0, 2000, 100000}, unit : {"kg", "m3"}, kg : {0}] :
        /\ it.unit = "m3" => it.quantity <= 2000
        /\ it.element = <<>> <=> it.material = <<>>}

PostBodies == UNION {[1..n -> PostItems] : n \in 1..MaxItems}

-----------------------------------------------------------------------------
(* ColumnMapper *)

LowerOf(c) ==
    CASE c = "A" -> "a" [] c = "B" -> "b" [] c = "C" -> "c" [] c = "D" -> "d"
      [] c = "E" -> "e" [] c = "F" -> "f" [] c = "G" -> "g" [] c = "H" -> "h"
      [] c = "I" -> "i" [] c = "J" -> "j" [] c = "K" -> "k" [] c = "L" -> "l"
      [] c = "M" -> "m" [] c = "N" -> "n" [] c = "O" -> "o" [] c = "P" -> "p"
      [] c = "Q" -> "q" [] c = "R" -> "r" [] c = "S" -> "s" [] c = "T" -> "t"
      [] c = "U" -> "u" [] c = "V" -> "v" [] c = "W" -> "w" [] c = "X" -> "x"
      [] c = "Y" -> "y" [] c = "Z" -> "z" [] OTHER -> c

toLowerCase(s) == [i \in 1..Len(s) |-> LowerOf(s[i])]

\* String.prototype.includes
Includes(s, sub) ==
    \E i \in 1..(Len(s) - Len(sub) + 1) : SubSeq(s, i, i + Len(sub) - 1) = sub

\* Array.prototype.findIndex, 0-based, -1 when no element satisfies P
FindIndex(seq, P(_)) ==
    IF \E i \in 1..Len(seq) : P(seq[i])
    THEN (CHOOSE i \in 1..Len(seq) :
              P(seq[i]) /\ \A j \in 1..(i - 1) : ~P(seq[j])) - 1
    ELSE -1

\* the select value of column index (0-based): `${column}:${index}`
ColumnValue(cols, index) == cols[index + 1] \o <<":">> \o NatToString(index)

ElementKeywords ==
    << <<"e", "l", "e", "m", "e", "n", "t">>,
       <<"b", "a", "u", "t", "e", "i", "l">>,
       <<"c", "o", "m", "p", "o", "n", "e", "n", "t">>,
       <<"t", "e", "i", "l">>,
       <<"n", "a", "m", "e", " ", "(", "1", ")">>,
       <<"n", "a", "m", "e", "(", "1", ")">>,
       <<"b", "u", "i", "l", "d", "i", "n", "g", " ", "e", "l", "e", "m", "e", "n", "t">>,
       <<"b", "a", "u", "t", "e", "i", "l", "e">>,
       <<"t", "y", "p", "e", " ", "n", "a", "m", "e">> >>

MaterialKeywords ==
    << <<"m", "a", "t", "e", "r", "i", "a", "l">>,
       <<"n", "a", "m", "e", " ", "(", "2", ")">>,
       <<"n", "a", "m", "e", "(", "2", ")">>,
       <<"w", "e", "r", "k", "s", "t", "o", "f", "f">>,
       <<"b", "a", "u", "s", "t", "o", "f", "f">>,
       <<"c", "o", "n", "s", "t", "r", "u", "c", "t", "i", "o", "n", " ", "m", "a", "t", "e", "r", "i", "a", "l">>,
       <<"m", "a", "t", "e", "r", "i", "a", "l", "i", "e", "n">> >>

QuantityKeywords ==
    << <<"q", "u", "a", "n", "t", "i", "t", "y">>,
       <<"m", "e", "n", "g", "e">>,
       <<"a", "m", "o", "u", "n", "t">>,
       <<"m", "a", "s", "s">>,
       <<"m", "a", "s", "s", "e">>,
       <<"v", "o", "l", "u", "m", "e", "n">>,
       <<"v", "o", "l", "u", "m", "e">>,
       <<"k", "g">>,
       <<"m", "3">>,
       <<"m", "³">>,
       <<"w", "e", "i", "g", "h", "t">>,
       <<"g", "e", "w", "i", "c", "h", "t">>,
       <<"g", "r", "o", "s", "s", "v", "o", "l", "u", "m", "e">>,
       <<"n", "e", "t", "v", "o", "l", "u", "m", "e">> >>

\* detectColumn(columns, keywords)
RECURSIVE detectColumnFrom(_, _, _)
detectColumnFrom(cols, keywords, k) ==
    IF k > Len(keywords) THEN <<>>
    ELSE LET lowerColumns == [i \in 1..Len(cols) |-> toLowerCase(cols[i])]
             index == FindIndex(lowerColumns,
                          LAMBDA col : Includes(col, toLowerCase(keywords[k])))
         IN  IF index # -1 THEN ColumnValue(cols, index)
             ELSE detectColumnFrom(cols, keywords, k + 1)

detectColumnMutant(cols, keywords) ==
    LET lowerColumns == [i \in 1..Len(cols) |-> toLowerCase(cols[i])]
        index == FindIndex(lowerColumns,
                     LAMBDA col : \E k \in 1..Len(keywords) :
                         Includes(col, toLowerCase(keywords[k])))
    IN  IF index # -1 THEN ColumnValue(cols, index) ELSE <<>>

detectColumn(cols, keywords) == detectColumnFrom(cols, keywords, 1)

\* getInitialMapping(columns, initialMapping); initialMapping is optional
getInitialMapping(cols, initialMapping) ==
    IF initialMapping # None THEN initialMapping[1]
    ELSE [element  |-> detectColumn(cols, ElementKeywords),
          material |-> detectColumn(cols, MaterialKeywords),
          quantity |-> detectColumn(cols, QuantityKeywords)]

\* String.prototype.split(":")
RECURSIVE Split(_, _)
Split(s, sep) ==
    IF \E i \in 1..Len(s) : s[i] = sep
    THEN LET i == CHOOSE k \in 1..Len(s) :
                      s[k] = sep /\ \A j \in 1..(k - 1) : s[j] # sep
         IN  <<SubSeq(s, 1, i - 1)>> \o Split(SubSeq(s, i + 1, Len(s)), sep)
    ELSE <<s>>

\* parseInt: optional sign and digits, None (NaN) when there is no digit
parseInt(str) ==
    LET s      == TrimLeft(str)
        neg    == s # <<>> /\ Head(s) = "-"
        signed == s # <<>> /\ Head(s) \in {"-", "+"}
        p      == IF signed THEN 2 ELSE 1
        n      == DigitRun(s, p)
        mag    == DigitsValue(s, p, n)
    IN  IF n = 0 THEN None ELSE Some(IF neg THEN 0 - mag ELSE mag)

\* the form's onSubmit: const [colName, colIndex] = value.split(":");
\* parseInt(colIndex); a missing second part is undefined and parses to NaN
CleanMappingValue(value) ==
    LET parts == Split(value, ":")
    IN  IF Len(parts) >= 2 THEN parseInt(parts[2]) ELSE None

cleanMapping(mapping) ==
    [element  |-> CleanMappingValue(mapping.element),
     material |-> CleanMappingValue(mapping.material),
     quantity |-> CleanMappingValue(mapping.quantity)]

-----------------------------------------------------------------------------
(* ConstructionLCACalculator: pure parts *)

\* the characters of /['\u2018\u2019\u201A\u201B\u2032\u2035]/, the
\* typographic ones by their code points
Apostrophes ==
    {"'", "U+2018", "U+2019", "U+201A", "U+201B", "U+2032", "U+2035"}

\* normalizeCSVNumber(value), the variant handleColumnMapping calls
normalizeCSVNumber(value) ==
    IF value = <<>> \/ Trim(value) = <<>> THEN 0
    ELSE LET n0 == RemoveAll(RemoveAll(Trim(value), Apostrophes), {" ", "\t"})
             dotCount == Count(n0, ".")
             commaCount == Count(n0, ",")
             lastDotIndex == LastIndexOf(n0, ".")
             lastCommaIndex == LastIndexOf(n0, ",")
             parts(sep) == Split(n0, sep)
             JoinInit(ps) ==
                 LET RECURSIVE J(_)
                     J(k) == IF k = 0 THEN <<>> ELSE J(k - 1) \o ps[k]
                 IN  J(Len(ps) - 1)
             normalized ==
                 IF dotCount > 0 /\ commaCount > 0
                 THEN IF lastCommaIndex > lastDotIndex
                      THEN ReplaceFirst(RemoveAll(n0, {"."}), ",", ".")
                      ELSE RemoveAll(n0, {","})
                 ELSE IF commaCount > 1
                 THEN JoinInit(parts(",")) \o <<".">>
                          \o parts(",")[Len(parts(","))]
                 ELSE IF commaCount = 1
                 THEN ReplaceFirst(n0, ",", ".")
                 ELSE IF dotCount > 1
                 THEN JoinInit(parts(".")) \o <<".">>
                          \o parts(".")[Len(parts("."))]
                 ELSE n0
             parsed == parseFloat(normalized)
         IN  IF parsed = None THEN 0 ELSE parsed[1]

\* row[index] || "": an index that is NaN or past the row reads undefined
CellAt(row, index) ==
    IF index # None /\ index[1] >= 0 /\ index[1] < Len(row)
    THEN row[index[1] + 1] ELSE <<>>

\* csvData.map((row, index) => ...) in handleColumnMapping; index is 0-based
MapRow(row, index, mapping, unit) ==
    [element  |-> IF CellAt(row, mapping.element) = <<>>
                  THEN sUnknownElement \o NatToString(index + 1)
                  ELSE CellAt(row, mapping.element),
     material |-> IF CellAt(row, mapping.material) = <<>>
                  THEN sUnknownMaterial \o NatToString(index + 1)
                  ELSE CellAt(row, mapping.material),
     quantity |-> normalizeCSVNumber(CellAt(row, mapping.quantity)),
     unit     |-> unit,
     kg       |-> 0]

\* a variant that spreads the submitted row and leaves its kg as submitted
FallbackRowMutant(item) ==
    [element |-> item.element,
     material |-> item.material,
     quantity |-> item.quantity,
     unit |-> item.unit,
     kg |-> item.kg,
     density |-> None,
     densityMin |-> None,
     densityMax |-> None,
     co2 |-> 0,
     ubp |-> 0,
     kwh |-> 0,
     matchedMaterial |-> sErrorFetchingData,
     matchScore |-> None,
     searchTerm |-> None,
     availableMaterials |-> <<>>]

\* the fallback rows of fetchLCAData's catch
FallbackRow(item) ==
    [element |-> item.element,
     material |-> item.material,
     quantity |-> item.quantity,
     unit |-> item.unit,
     kg |-> item.quantity,
     density |-> None,
     densityMin |-> None,
     densityMax |-> None,
     co2 |-> 0,
     ubp |-> 0,
     kwh |-> 0,
     matchedMaterial |-> sErrorFetchingData,
     matchScore |-> None,
     searchTerm |-> None,
     availableMaterials |-> <<>>]

\* handleCSVUpload: rowObj[header] = row[index], a later duplicate header wins
RowObject(headers, row) ==
    [h \in {headers[i] : i \in 1..Len(headers)} |->
        LET i == CHOOSE k \in 1..Len(headers) :
                     headers[k] = h /\ \A j \in (k + 1)..Len(headers) : headers[j] # h
        IN  IF i <= Len(row) THEN row[i] ELSE <<>>]

\* Array.prototype.splice(index, 1) on a copy
Splice(seq, index) ==
    IF index >= 0 /\ index < Len(seq)
    THEN SubSeq(seq, 1, index) \o SubSeq(seq, index + 2, Len(seq))
    ELSE seq

\* a variant that splices in the order the indices were given
SortDescendingMutant(indices) == indices

\* [...indices].sort((a, b) => b - a)
RECURSIVE SortDescending(_)
SortDescending(indices) ==
    IF indices = <<>> THEN <<>>
    ELSE LET m == CHOOSE i \in 1..Len(indices) :
                      \A j \in 1..Len(indices) : indices[i] >= indices[j]
         IN  <<indices[m]>> \o
             SortDescending(SubSeq(indices, 1, m - 1)
                              \o SubSeq(indices, m + 1, Len(indices)))

\* sortedIndices.forEach((index) => newData.splice(index, 1))
RECURSIVE SpliceAll(_, _)
SpliceAll(seq, sortedIndices) ==
    IF sortedIndices = <<>> THEN seq
    ELSE SpliceAll(Splice(seq, Head(sortedIndices)), Tail(sortedIndices))

-----------------------------------------------------------------------------
(* Inputs of the application *)

sElement == <<"E", "l", "e", "m", "e", "n", "t">>

sMaterial == <<"M", "a", "t", "e", "r", "i", "a", "l">>

sMenge == <<"M", "e", "n", "g", "e">>

sTyp == <<"T", "y", "p">>

sUndefined == <<"u", "n", "d", "e", "f", "i", "n", "e", "d">>

\* what Papa.parse hands to onUpload, data.slice(1) and data[0], for two
\* files: one whose three columns are detected from the headers, with an
\* empty material cell and a decimal comma; one whose element column is not
UploadFiles ==
    { [headers |-> <<sElement, sMaterial, sMenge>>,
       data |-> << <<sWall, sBeton, <<"1", "0">>>>,
                   <<sWall, <<>>, <<"3", ",", "5">>>>,
                   <<sRoof, sHolz, <<"4">>>> >>],
      [headers |-> <<sTyp, sMaterial, sMenge>>,
       data |-> << <<sRoof, sHolz, <<"2">>>> >>] }

\* what fuse.search answers in the application runs: an accepted record for
\* BETON, a rejected candidate for HOLZ, nothing for any other term
FuseSample(term) ==
    IF term = toUpperCase(sBeton) THEN Some([item |-> 1, score |-> 200])
    ELSE IF term = toUpperCase(sHolz) THEN Some([item |-> 2, score |-> 400])
    ELSE None

\* the ways a request can end: fetch rejects, or the route answers
RequestOutcomes == {"networkError"} \cup CatalogOutcomes

\* densities a user types into the density editor, in thousandths
NewDensities == {400000}

\* non-empty lists of distinct indices 0..n-1, in any order
RECURSIVE IndexListsOfLen(_, _)
IndexListsOfLen(n, k) ==
    IF k = 0 THEN {<<>>}
    ELSE {Append(l, i) : l \in IndexListsOfLen(n, k - 1), i \in 0..(n - 1)}

IndexLists(n) ==
    {l \in UNION {IndexListsOfLen(n, k) : k \in 1..n} :
        \A i, j \in 1..Len(l) : i # j => l[i] # l[j]}

-----------------------------------------------------------------------------
(* ConstructionLCACalculator: state and rendering *)

Unmounted ==
    [mounted |-> FALSE,
     mapping |-> [element |-> <<>>, material |-> <<>>, quantity |-> <<>>],
     unit |-> "kg"]

NoLast ==
    [op |-> "none", outcome |-> "", indices |-> <<>>, id |-> 0, req |-> <<>>]

\* the column mapper section is rendered with the ColumnMapper in it
MapperVisible(cols, collapsed, show) ==
    Len(cols) > 0 /\ ~(collapsed.mapper /\ ~show)

\* the results section is rendered
ResultsVisible(md, show) == Len(md) > 0 /\ ~show

\* the uploader is rendered
UploaderVisible(collapsed) == ~collapsed.upload

Abs(x) == IF x < 0 THEN 0 - x ELSE x

\* the tolerance of the quantity comparison, 0.001
Epsilon == 1

\* `${columns[idx]}:${idx}` of the initialMapping prop
PropValue(cols, idx) ==
    IF idx = -1 THEN <<>>
    ELSE (IF idx < Len(cols) THEN cols[idx + 1] ELSE sUndefined)
             \o <<":">> \o NatToString(idx)

\* the initialMapping prop: undefined without results, else the indices
\* found again in the first raw row
initialMapping(cols, csv, md) ==
    IF Len(md) > 0
    THEN LET first == IF Len(csv) > 0 THEN csv[1] ELSE <<>>
             elementIdx == FindIndex(first, LAMBDA cell : cell = md[1].element)
             materialIdx == FindIndex(first, LAMBDA cell : cell = md[1].material)
             quantityIdx ==
                 FindIndex(first, LAMBDA cell :
                     Abs(normalizeCSVNumber(cell) - md[1].quantity) < Epsilon)
         IN  Some([element  |-> PropValue(cols, elementIdx),
                   material |-> PropValue(cols, materialIdx),
                   quantity |-> PropValue(cols, quantityIdx)])
    ELSE None

\* the initialUnit prop with its default parameter value "kg"
initialUnit(md) == IF Len(md) > 0 THEN md[1].unit ELSE "kg"

\* the useState initialisers of a ColumnMapper that mounts
MountMapper(cols, csv, md) ==
    [mounted |-> TRUE,
     mapping |-> getInitialMapping(cols, initialMapping(cols, csv, md)),
     unit |-> initialUnit(md)]

\* the ColumnMapper after a render: kept while it stays rendered, mounted
\* afresh when it appears, gone when it is not rendered
MapperAfter(cur, cols, csv, md, collapsed, show) ==
    IF ~MapperVisible(cols, collapsed, show) THEN Unmounted
    ELSE IF cur.mounted THEN cur
    ELSE MountMapper(cols, csv, md)

-----------------------------------------------------------------------------
(* ConstructionLCACalculator: handlers *)

Init ==
    /\ csvData = <<>>
    /\ columns = <<>>
    /\ originalRowData = <<>>
    /\ mappedData = <<>>
    /\ error = "null"
    /\ isLoading = FALSE
    /\ showColumnMapper = FALSE
    /\ currentStep = 1
    /\ collapsedSections = [upload |-> FALSE, mapper |-> FALSE]
    /\ mappingSummary = None
    /\ mapper = Unmounted
    /\ inflight = {}
    /\ nextReq = 0
    /\ nInputs = 0
    /\ uploaded = FALSE
    /\ submitted = None
    /\ last = NoLast
    /\ postData = <<>>
    /\ postEnv = [catalog |-> "ok", fuse |-> <<>>]
    /\ postOut = None
    /\ fnIn = None
    /\ fnOut = None

\* handleCSVUpload(data, headers, file)
handleCSVUpload(file) ==
    /\ UploaderVisible(collapsedSections)
    /\ nInputs < MaxInputs
    /\ csvData' = file.data
    /\ columns' = file.headers
    /\ originalRowData' =
           [i \in 1..Len(file.data) |-> RowObject(file.headers, file.data[i])]
    /\ collapsedSections' = [collapsedSections EXCEPT !.upload = TRUE]
    /\ currentStep' = 2
    /\ mapper' = MapperAfter(mapper, columns', csvData', mappedData,
                             collapsedSections', showColumnMapper)
    /\ nInputs' = nInputs + 1
    /\ uploaded' = TRUE
    /\ last' = NoLast
    /\ UNCHANGED <<mappedData, error, isLoading, showColumnMapper,
                   mappingSummary, inflight, nextReq, submitted>>
    /\ UNCHANGED pureVars

\* a variant that keeps the score the row had
UpdatedMaterialRowMutant(row, material) ==
    LET kg == IF row.unit = "m3" /\ material.density # None
                    /\ material.density[1] # 0
              THEN Mul(row.quantity, material.density[1])
              ELSE row.kg
    IN  [row EXCEPT !.kg = kg,
                    !.density = material.density,
                    !.densityMin = material.densityMin,
                    !.densityMax = material.densityMax,
                    !.matchedMaterial = material.name,
                    !.co2 = Mul(material.co2, kg),
                    !.ubp = Mul(material.ubp, kg),
                    !.kwh = Mul(material.kwh, kg)]

\* the row handleUpdateMaterial writes at one index
UpdatedMaterialRow(row, material) ==
    LET kg == IF row.unit = "m3" /\ material.density # None
                    /\ material.density[1] # 0
              THEN Mul(row.quantity, material.density[1])
              ELSE row.kg
    IN  [row EXCEPT !.kg = kg,
                    !.density = material.density,
                    !.densityMin = material.densityMin,
                    !.densityMax = material.densityMax,
                    !.matchedMaterial = material.name,
                    !.co2 = Mul(material.co2, kg),
                    !.ubp = Mul(material.ubp, kg),
                    !.kwh = Mul(material.kwh, kg),
                    !.matchScore = Some(0)]

\* a variant that computes every selected row's impacts from the mass of the
\* first selected row
UpdateMaterialRowsMutant(data, indices, material) ==
    LET shared == UpdatedMaterialRow(data[Head(indices) + 1], material).kg
    IN  [i \in 1..Len(data) |->
            IF \E j \in 1..Len(indices) : indices[j] = i - 1
            THEN [UpdatedMaterialRow(data[i], material) EXCEPT
                      !.co2 = Mul(material.co2, shared),
                      !.ubp = Mul(material.ubp, shared),
                      !.kwh = Mul(material.kwh, shared)]
            ELSE data[i]]

\* indices.forEach((index) => { newData[index] = ... })
RECURSIVE UpdateMaterialRows(_, _, _)
UpdateMaterialRows(data, indices, material) ==
    IF indices = <<>> THEN data
    ELSE UpdateMaterialRows(
             [data EXCEPT ![Head(indices) + 1] = UpdatedMaterialRow(@, material)],
             Tail(indices), material)

\* handleUpdateMaterial(indices, material), called from a row's material
\* picker or from the bulk update of the selected rows
handleUpdateMaterial(indices, material) ==
    /\ ResultsVisible(mappedData, showColumnMapper)
    /\ nInputs < MaxInputs
    /\ nInputs' = nInputs + 1
    /\ mappedData' = UpdateMaterialRows(mappedData, indices, material)
    /\ last' = [NoLast EXCEPT !.op = "material", !.indices = indices,
                              !.outcome = material.id]
    /\ UNCHANGED <<csvData, columns, originalRowData, error, isLoading,
                   showColumnMapper, currentStep, collapsedSections,
                   mappingSummary, mapper, inflight, nextReq, submitted,
                   uploaded>>
    /\ UNCHANGED pureVars

Max(a, b) == IF a > b THEN a ELSE b

Min(a, b) == IF a < b THEN a ELSE b

\* a variant that stores the edited value as typed
ClampDensityMutant(row, newDensity) == newDensity

\* Math.max(row.densityMin, Math.min(row.densityMax, newDensity))
ClampDensity(row, newDensity) ==
    Max(row.densityMin[1], Min(row.densityMax[1], newDensity))

\* a variant that recomputes the mass but leaves the impacts as they were
UpdateDensityRowsMutant(prevData, index, newDensity) ==
    LET row == prevData[index + 1]
    IN  IF row.densityMin = None \/ row.densityMax = None THEN prevData
        ELSE IF row.densityMin = row.densityMax THEN prevData
        ELSE LET clamped == ClampDensity(row, newDensity)
                 kg == IF row.unit = "m3" THEN Mul(row.quantity, clamped)
                       ELSE row.kg
             IN  [prevData EXCEPT ![index + 1] =
                     [row EXCEPT !.density = Some(clamped), !.kg = kg]]

\* the setMappedData updater of handleUpdateDensity
UpdateDensityRows(prevData, index, newDensity) ==
    LET row == prevData[index + 1]
    IN  IF row.densityMin = None \/ row.densityMax = None THEN prevData
        ELSE IF row.densityMin = row.densityMax THEN prevData
        ELSE LET clamped == ClampDensity(row, newDensity)
                 kg == IF row.unit = "m3" THEN Mul(row.quantity, clamped)
                       ELSE row.kg
                 found == FindIndex(row.availableMaterials,
                              LAMBDA m : m.name = row.matchedMaterial)
                 material == row.availableMaterials[found + 1]
             IN  [prevData EXCEPT ![index + 1] =
                     [row EXCEPT !.density = Some(clamped),
                                 !.kg = kg,
                                 !.co2 = IF found # -1 THEN Mul(material.co2, kg) ELSE 0,
                                 !.ubp = IF found # -1 THEN Mul(material.ubp, kg) ELSE 0,
                                 !.kwh = IF found # -1 THEN Mul(material.kwh, kg) ELSE 0]]

\* handleUpdateDensity(index, newDensity)
handleUpdateDensity(index, newDensity) ==
    /\ ResultsVisible(mappedData, showColumnMapper)
    /\ nInputs < MaxInputs
    /\ nInputs' = nInputs + 1
    /\ mappedData' = UpdateDensityRows(mappedData, index, newDensity)
    /\ last' = [NoLast EXCEPT !.op = "density", !.indices = <<index>>]
    /\ UNCHANGED <<csvData, columns, originalRowData, error, isLoading,
                   showColumnMapper, currentStep, collapsedSections,
                   mappingSummary, mapper, inflight, nextReq, submitted,
                   uploaded>>
    /\ UNCHANGED pureVars

\* handleDeleteRows(indices), after the confirm dialog was accepted
handleDeleteRows(indices) ==
    /\ ResultsVisible(mappedData, showColumnMapper)
    /\ nInputs < MaxInputs
    /\ nInputs' = nInputs + 1
    /\ mappedData' = SpliceAll(mappedData, SortDescending(indices))
    /\ originalRowData' = SpliceAll(originalRowData, SortDescending(indices))
    /\ mapper' = MapperAfter(mapper, columns, csvData, mappedData',
                             collapsedSections, showColumnMapper)
    /\ last' = [NoLast EXCEPT !.op = "delete", !.indices = indices]
    /\ UNCHANGED <<csvData, columns, error, isLoading, showColumnMapper,
                   currentStep, collapsedSections, mappingSummary, inflight,
                   nextReq, submitted, uploaded>>
    /\ UNCHANGED pureVars

\* the mapper's select onChange: setMapping({...prev, [field]: value})
SelectColumn(field, value) ==
    /\ mapper.mounted
    /\ nInputs < MaxInputs
    /\ mapper.mapping[field] # value
    /\ mapper' = [mapper EXCEPT !.mapping[field] = value]
    /\ nInputs' = nInputs + 1
    /\ last' = NoLast
    /\ UNCHANGED <<csvData, columns, originalRowData, mappedData, error,
                   isLoading, showColumnMapper, currentStep,
                   collapsedSections, mappingSummary, inflight, nextReq,
                   submitted, uploaded>>
    /\ UNCHANGED pureVars

\* the mapper's unit buttons: setUnit(u)
SetUnit(u) ==
    /\ mapper.mounted
    /\ mapper.unit # u
    /\ mapper' = [mapper EXCEPT !.unit = u]
    /\ last' = NoLast
    /\ UNCHANGED <<csvData, columns, originalRowData, mappedData, error,
                   isLoading, showColumnMapper, currentStep,
                   collapsedSections, mappingSummary, inflight, nextReq,
                   submitted, nInputs, uploaded>>
    /\ UNCHANGED pureVars

\* columns[mapping.x] || ""
SummaryName(cols, index) ==
    IF index # None /\ index[1] >= 0 /\ index[1] < Len(cols)
    THEN cols[index[1] + 1] ELSE <<>>

\* the form's onSubmit and handleColumnMapping(mapping, unit) up to the await
\* of fetchLCAData; every select is `required`, so an empty value blocks it
SubmitMapping ==
    /\ mapper.mounted
    /\ nInputs < MaxInputs
    /\ mapper.mapping.element # <<>>
    /\ mapper.mapping.material # <<>>
    /\ mapper.mapping.quantity # <<>>
    /\ LET mapping == cleanMapping(mapper.mapping)
           data == [i \in 1..Len(csvData) |->
                       MapRow(csvData[i], i - 1, mapping, mapper.unit)]
       IN  /\ inflight' = inflight \cup
                  {[id |-> nextReq + 1, data |-> data, mapping |-> mapping,
                    unit |-> mapper.unit]}
           /\ mappingSummary' =
                  Some([element  |-> SummaryName(columns, mapping.element),
                        material |-> SummaryName(columns, mapping.material),
                        quantity |-> SummaryName(columns, mapping.quantity),
                        unit     |-> mapper.unit])
           /\ submitted' = Some([mapping |-> mapping, unit |-> mapper.unit])
           /\ last' = [NoLast EXCEPT !.op = "submit", !.id = nextReq + 1]
    /\ isLoading' = TRUE
    /\ error' = "null"
    /\ nextReq' = nextReq + 1
    /\ nInputs' = nInputs + 1
    /\ UNCHANGED <<csvData, columns, originalRowData, mappedData,
                   showColumnMapper, currentStep, collapsedSections, mapper,
                   uploaded>>
    /\ UNCHANGED pureVars

\* fetchLCAData(data) has failed: fetch rejected, !response.ok, or result.error
RequestFailed(outcome, response) ==
    \/ outcome = "networkError"
    \/ response.status # 200
    \/ response.error # ""

\* what the route answers to the body of request r
RouteResponse(r, outcome) ==
    POST(r.data,
         [catalog |-> IF outcome = "networkError" THEN "ok" ELSE outcome,
          fuse |-> [i \in 1..Len(r.data) |->
                       FuseSample(toUpperCase(CleanItem(r.data[i], i - 1).material))]])

\* a variant in which the rows of a superseded request are dropped
fetchLCADataMutant(r, outcome) ==
    IF r.id < nextReq
    THEN mappedData
    ELSE IF RequestFailed(outcome, RouteResponse(r, outcome))
         THEN [i \in 1..Len(r.data) |-> FallbackRow(r.data[i])]
         ELSE RouteResponse(r, outcome).body

\* the value fetchLCAData(data) resolves to
fetchLCAData(r, outcome) ==
    IF RequestFailed(outcome, RouteResponse(r, outcome))
    THEN [i \in 1..Len(r.data) |-> FallbackRow(r.data[i])]
    ELSE RouteResponse(r, outcome).body

\* the error state after the run of handleColumnMapping that follows the
\* await: fetchLCAData's catch has set its message, then the try block's
\* last statement sets null
ErrorAfterResume(outcome, response) ==
    LET afterFetch == IF RequestFailed(outcome, response)
                      THEN "Failed to fetch LCA data" ELSE error
    IN  "null"

\* the request of r settles and handleColumnMapping runs from the await to
\* its end, finally block included
ResumeColumnMapping(r, outcome) ==
    /\ r \in inflight
    /\ inflight' = inflight \ {r}
    /\ mappedData' = fetchLCAData(r, outcome)
    /\ showColumnMapper' = FALSE
    /\ collapsedSections' = [collapsedSections EXCEPT !.mapper = TRUE]
    /\ currentStep' = 3
    /\ error' = ErrorAfterResume(outcome, RouteResponse(r, outcome))
    /\ isLoading' = FALSE
    /\ mapper' = MapperAfter(mapper, columns, csvData, mappedData',
                             collapsedSections', showColumnMapper')
    /\ last' = [NoLast EXCEPT
                   !.op = "response",
                   !.outcome = IF RequestFailed(outcome, RouteResponse(r, outcome))
                               THEN "failed" ELSE "ok",
                   !.id = r.id,
                   !.req = r.data]
    /\ UNCHANGED <<csvData, columns, originalRowData, mappingSummary, nextReq,
                   submitted, nInputs, uploaded>>
    /\ UNCHANGED pureVars

\* toggleSection("upload"), from the button of the collapsed upload section
ToggleUpload ==
    /\ collapsedSections.upload
    /\ collapsedSections' = [collapsedSections EXCEPT !.upload = ~@]
    /\ IF ~collapsedSections.upload
       THEN currentStep' = 1
       ELSE UNCHANGED currentStep
    /\ last' = NoLast
    /\ UNCHANGED <<csvData, columns, originalRowData, mappedData, error,
                   isLoading, showColumnMapper, mappingSummary, mapper,
                   inflight, nextReq, submitted, nInputs, uploaded>>
    /\ UNCHANGED pureVars

\* toggleSection("mapper"), from the button of the collapsed mapper section
ToggleMapper ==
    /\ Len(columns) > 0
    /\ collapsedSections.mapper /\ ~showColumnMapper
    /\ collapsedSections' = [collapsedSections EXCEPT !.mapper = ~@]
    /\ IF ~collapsedSections.mapper
       THEN showColumnMapper' = TRUE /\ currentStep' = 2
       ELSE UNCHANGED <<showColumnMapper, currentStep>>
    /\ mapper' = MapperAfter(mapper, columns, csvData, mappedData,
                             collapsedSections', showColumnMapper')
    /\ last' = NoLast
    /\ UNCHANGED <<csvData, columns, originalRowData, mappedData, error,
                   isLoading, mappingSummary, inflight, nextReq, submitted,
                   nInputs, uploaded>>
    /\ UNCHANGED pureVars

\* the mapper's onCancel
CancelMapper ==
    /\ mapper.mounted
    /\ showColumnMapper' = FALSE
    /\ collapsedSections' =
           IF Len(mappedData) > 0
           THEN [collapsedSections EXCEPT !.mapper = TRUE]
           ELSE collapsedSections
    /\ mapper' = MapperAfter(mapper, columns, csvData, mappedData,
                             collapsedSections', showColumnMapper')
    /\ last' = NoLast
    /\ UNCHANGED <<csvData, columns, originalRowData, mappedData, error,
                   isLoading, currentStep, mappingSummary, inflight, nextReq,
                   submitted, nInputs, uploaded>>
    /\ UNCHANGED pureVars

\* the "Spaltenzuordnung anpassen" button of the results section
AdjustMapping ==
    /\ ResultsVisible(mappedData, showColumnMapper)
    /\ showColumnMapper' = TRUE
    /\ collapsedSections' = [collapsedSections EXCEPT !.mapper = FALSE]
    /\ currentStep' = 2
    /\ mapper' = MapperAfter(mapper, columns, csvData, mappedData,
                             collapsedSections', showColumnMapper')
    /\ last' = [NoLast EXCEPT !.op = "adjust",
                              !.outcome = IF mapper.mounted THEN "kept"
                                          ELSE "opened"]
    /\ UNCHANGED <<csvData, columns, originalRowData, mappedData, error,
                   isLoading, mappingSummary, inflight, nextReq, submitted,
                   nInputs, uploaded>>
    /\ UNCHANGED pureVars

\* the option values of a mapper select
SelectValues ==
    {<<>>} \cup {ColumnValue(columns, i) : i \in 0..(Len(columns) - 1)}

\* the materials a picker offers for the rows at indices
OfferedMaterials(indices) ==
    UNION {{mappedData[i + 1].availableMaterials[k] :
               k \in 1..Len(mappedData[i + 1].availableMaterials)} :
           i \in {indices[j] : j \in 1..Len(indices)}}

\* the steps of the application
Next ==
    \/ \E file \in UploadFiles : handleCSVUpload(file)
    \/ \E field \in {"element", "material", "quantity"} :
           \E value \in SelectValues : SelectColumn(field, value)
    \/ \E u \in {"kg", "m3"} : SetUnit(u)
    \/ SubmitMapping
    \/ \E r \in inflight : \E outcome \in RequestOutcomes :
           ResumeColumnMapping(r, outcome)
    \/ \E indices \in IndexLists(Len(mappedData)) :
           \E material \in OfferedMaterials(indices) :
               handleUpdateMaterial(indices, material)
    \/ \E index \in 0..(Len(mappedData) - 1) : \E d \in NewDensities :
           handleUpdateDensity(index, d)
    \/ \E indices \in IndexLists(Len(mappedData)) : handleDeleteRows(indices)
    \/ ToggleUpload
    \/ ToggleMapper
    \/ CancelMapper
    \/ AdjustMapping

Spec == Init /\ [][Next]_vars

-----------------------------------------------------------------------------
(* The match step on its own: POST applied to any body and any answer *)

InitMatch ==
    /\ Init
    /\ postOut = None

PickRequest ==
    /\ postData = <<>>
    /\ postData' \in PostBodies
    /\ postEnv' \in PostEnvs(Len(postData'))
    /\ UNCHANGED postOut
    /\ UNCHANGED appVars
    /\ UNCHANGED fnVars

RunPOST ==
    /\ postData # <<>>
    /\ postOut = None
    /\ postOut' = Some(POST(postData, postEnv))
    /\ UNCHANGED <<postData, postEnv>>
    /\ UNCHANGED appVars
    /\ UNCHANGED fnVars

NextMatch == PickRequest \/ RunPOST

SpecMatch == InitMatch /\ [][NextMatch]_vars

-----------------------------------------------------------------------------
(* Properties of the match step (SpecMatch) *)

\* the rows of the response to the request picked, with the submitted item
\* and Fuse's answer for each
Answered == postOut # None /\ postOut[1].status = 200

AnsweredRows == IF Answered THEN postOut[1].body ELSE <<>>

Candidate(i) == postEnv.fuse[i]

Accepted(i) == Candidate(i) # None /\ Candidate(i)[1].score < 400

CandidateRecord(i) == kgMaterials[Candidate(i)[1].item]

\* C1: a candidate is accepted only when its score is strictly below 0.4;
\* a row with no candidate or with a candidate scored 0.4 or more has co2,
\* ubp and kwh of 0, matchedMaterial 'No match found for: <material>' and a
\* null matchScore
C1_RejectedRowHasNullScore ==
    \A i \in 1..Len(AnsweredRows) :
        LET row == AnsweredRows[i]
        IN  /\ row.matchedMaterial # sNoMatchFoundFor \o row.material
                   => Accepted(i)
            /\ ~Accepted(i) =>
                   /\ row.co2 = 0 /\ row.ubp = 0 /\ row.kwh = 0
                   /\ row.matchedMaterial = sNoMatchFoundFor \o row.material
                   /\ row.matchScore = None

\* C2: an accepted row has co2 = gwp x mass, ubp = ubp x mass and
\* kwh = energy x mass, a missing factor counting as 0, and the record's
\* name as matchedMaterial; a row that is not accepted has all three at 0
C2_ImpactsAreFactorTimesMass ==
    \A i \in 1..Len(AnsweredRows) :
        LET row == AnsweredRows[i]
        IN  IF Accepted(i)
            THEN /\ row.co2 = Mul(OrZero(CandidateRecord(i).gwpTotal), row.kg)
                 /\ row.ubp = Mul(OrZero(CandidateRecord(i).ubp21Total), row.kg)
                 /\ row.kwh =
                        Mul(OrZero(CandidateRecord(i).primaryEnergyNonRenewableTotal),
                            row.kg)
                 /\ row.matchedMaterial = CandidateRecord(i).nameDE
            ELSE row.co2 = 0 /\ row.ubp = 0 /\ row.kwh = 0

\* 100 kg matched at score 0.2 to the record with gwp 0.1, ubp 50 and
\* energy 0.5: mass 100, co2 10, ubp 5000, kwh 50
C2_Witness ==
    /\ Answered
    /\ postData[1].quantity = 100000 /\ postData[1].unit = "kg"
    /\ Candidate(1) = Some([item |-> 1, score |-> 200])
    /\ AnsweredRows[1].kg = 100000
    /\ AnsweredRows[1].co2 = 10000
    /\ AnsweredRows[1].ubp = 5000000
    /\ AnsweredRows[1].kwh = 50000
    /\ AnsweredRows[1].matchedMaterial = sBeton

\* C3: the mass of a row is its quantity when the unit is kg, and when the
\* unit is m3 its quantity x the density of the matched record, 0 when
\* there is no matched record or the record has no density
C3_MassFromUnit ==
    \A i \in 1..Len(AnsweredRows) :
        LET row == AnsweredRows[i]
        IN  /\ row.unit = "kg" => row.kg = row.quantity
            /\ row.unit = "m3" =>
                   row.kg = IF Candidate(i) = None
                                   \/ CandidateRecord(i).density = <<>>
                            THEN 0
                            ELSE Mul(row.quantity,
                                     parseFloat(CandidateRecord(i).density)[1])

-----------------------------------------------------------------------------
(* Properties of the application (Spec) *)

\* C4: whatever was done to the table, a row in kg has kg = quantity and a
\* row in m3 has kg = quantity x its stored density
C4_MassMatchesDensity ==
    \A i \in 1..Len(mappedData) :
        LET row == mappedData[i]
        IN  /\ row.unit = "kg" => row.kg = row.quantity
            /\ row.unit = "m3" =>
                   /\ row.density # None
                   /\ row.kg = Mul(row.quantity, row.density[1])

\* the handling of a failed request has just finished
FailedResponseHandled == last.op = "response" /\ last.outcome = "failed"

\* C5: after a failed request the table holds one fallback row per
\* submitted row, with element, material, quantity and unit as submitted,
\* kg = quantity, impacts 0, matchedMaterial 'Error fetching data' and a
\* null matchScore; it is not empty when rows were submitted
C5_FallbackRows ==
    FailedResponseHandled =>
        /\ Len(mappedData) = Len(last.req)
        /\ \A i \in 1..Len(last.req) :
               /\ mappedData[i].element = last.req[i].element
               /\ mappedData[i].material = last.req[i].material
               /\ mappedData[i].quantity = last.req[i].quantity
               /\ mappedData[i].unit = last.req[i].unit
               /\ mappedData[i].kg = last.req[i].quantity
               /\ mappedData[i].co2 = 0
               /\ mappedData[i].ubp = 0
               /\ mappedData[i].kwh = 0
               /\ mappedData[i].matchedMaterial = sErrorFetchingData
               /\ mappedData[i].matchScore = None
        /\ (Len(csvData) > 0 => Len(mappedData) > 0)

\* a failed request for three rows in m3, the second with quantity 3.5
C5_Witness ==
    /\ FailedResponseHandled
    /\ Len(mappedData) = 3
    /\ mappedData[2].unit = "m3"
    /\ mappedData[2].quantity = 3500
    /\ mappedData[2].kg = 3500

\* C6: once the handling of a failed request has finished and isLoading is
\* false, error is not null
C6_ErrorSetAfterFailure ==
    (FailedResponseHandled /\ ~isLoading) => error # "null"

\* C7: at most one catalog-match request is in flight at any time
C7_SingleRequestInFlight == Cardinality(inflight) <= 1

\* a mapping submission's request has completed
SomeRequestCompleted == nextReq > Cardinality(inflight)

\* C8: the column mapper is offered only after a CSV was uploaded, the
\* results table is shown only after a mapping submission's request has
\* completed, and 'adjust mapping', when it opens the mapper, opens it with
\* the mapping and the unit of the prior submission selected
C8_Workflow ==
    /\ mapper.mounted => uploaded
    /\ ResultsVisible(mappedData, showColumnMapper) => SomeRequestCompleted
    /\ (last.op = "adjust" /\ last.outcome = "opened") =>
           /\ mapper.mounted
           /\ submitted # None
           /\ cleanMapping(mapper.mapping) = submitted[1].mapping
           /\ mapper.unit = submitted[1].unit

\* the rows of seq whose 0-based position is not in S, in their order
RECURSIVE RowsNotIn(_, _, _)
RowsNotIn(seq, S, from) ==
    IF from > Len(seq) THEN <<>>
    ELSE (IF (from - 1) \in S THEN <<>> ELSE <<seq[from]>>)
             \o RowsNotIn(seq, S, from + 1)

IndexSet(indices) == {indices[j] : j \in 1..Len(indices)}

\* C9: deleting a list of distinct valid indices, given in any order,
\* leaves exactly the rows whose index is not in the list, in their order,
\* in the processed rows and in originalRowData alike
C9_DeleteRemovesExactlyTheIndices ==
    [][last'.op = "delete" =>
           /\ mappedData' = RowsNotIn(mappedData, IndexSet(last'.indices), 1)
           /\ originalRowData' =
                  RowsNotIn(originalRowData, IndexSet(last'.indices), 1)]_vars

\* indices 0 and 2 were deleted, given in ascending order, from the three
\* rows of the table: the middle row is what remains
C9_Witness ==
    /\ last.op = "delete"
    /\ last.indices = <<0, 2>>
    /\ Len(csvData) = 3
    /\ Len(mappedData) = 1
    /\ mappedData[1].quantity = 3500
    /\ Len(originalRowData) = 1
    /\ originalRowData[1][sMenge] = <<"3", ",", "5">>

\* the material the last update was made with, as the rows offer it
UpdateMaterial(md) ==
    CHOOSE m \in UNION {{md[i].availableMaterials[k] :
                            k \in 1..Len(md[i].availableMaterials)} :
                        i \in 1..Len(md)} : m.id = last'.outcome

\* C10: a bulk update with material M over the rows S gives each row of S
\* M's name and M's factors x that row's own mass, and leaves the other
\* rows, the number of rows and their order as they were
C10_BulkUpdateUsesOwnMass ==
    [][last'.op = "material" =>
           LET M == UpdateMaterial(mappedData)
               S == IndexSet(last'.indices)
           IN  /\ Len(mappedData') = Len(mappedData)
               /\ \A i \in 1..Len(mappedData) :
                      IF (i - 1) \in S
                      THEN /\ mappedData'[i].matchedMaterial = M.name
                           /\ mappedData'[i].co2 = Mul(M.co2, mappedData'[i].kg)
                           /\ mappedData'[i].ubp = Mul(M.ubp, mappedData'[i].kg)
                           /\ mappedData'[i].kwh = Mul(M.kwh, mappedData'[i].kg)
                           /\ mappedData'[i].element = mappedData[i].element
                           /\ mappedData'[i].material = mappedData[i].material
                           /\ mappedData'[i].quantity = mappedData[i].quantity
                           /\ mappedData'[i].unit = mappedData[i].unit
                      ELSE mappedData'[i] = mappedData[i]]_vars

\* rows 2 and 0 of three were updated at once with one material and hold
\* different masses and different impacts; row 1 was not selected
C10_Witness ==
    /\ last.op = "material"
    /\ last.indices = <<2, 0>>
    /\ Len(mappedData) = 3
    /\ mappedData[1].matchedMaterial = mappedData[3].matchedMaterial
    /\ mappedData[1].kg # mappedData[3].kg
    /\ mappedData[1].ubp # mappedData[3].ubp
    /\ mappedData[1].ubp > 0 /\ mappedData[3].ubp > 0
    /\ mappedData[2].matchedMaterial # mappedData[1].matchedMaterial

\* C11: after the user selects a material for rows (one row or several),
\* each of those rows has matchScore 0, whatever its score was before
C11_ManualSelectionScoresZero ==
    [][last'.op = "material" =>
           \A i \in 1..Len(mappedData') :
               IF (i - 1) \in IndexSet(last'.indices)
               THEN mappedData'[i].matchScore = Some(0)
               ELSE mappedData'[i].matchScore = mappedData[i].matchScore]_vars

\* rows 1 and 0 were given a material at once; row 1 had no candidate and
\* a null score, row 0 an accepted candidate with score 0.2
C11_Witness ==
    /\ last.op = "material"
    /\ last.indices = <<1, 0>>
    /\ mappedData[2].material = sUnknownMaterial \o <<"2">>
    /\ mappedData[2].matchScore = Some(0)
    /\ mappedData[1].material = sBeton
    /\ mappedData[1].matchScore = Some(0)
    /\ mappedData[3].matchScore = Some(400)

-----------------------------------------------------------------------------
(* The density edit on its own: the updater applied to any table *)

\* the density fields a row can hold: no range, a lower limit only, a fixed
\* density (min = max), or a range 400..500 around the stored 450
DensityRanges == {"none", "minOnly", "fixed", "open"}

\* a processed row of 2 (kg or m3), as MaterialData allows it
DensityRow(unit, range, matched) ==
    LET density == IF range = "open" THEN 450000 ELSE 500000
        kg == IF unit = "m3" THEN Mul(2000, density) ELSE 2000
        isMatched == matched = sBeton
    IN  [element |-> sWall,
         material |-> sBeton,
         quantity |-> 2000,
         unit |-> unit,
         kg |-> kg,
         density |-> Some(density),
         densityMin |-> CASE range = "none" -> None
                          [] range = "fixed" -> Some(500000)
                          [] OTHER -> Some(400000),
         densityMax |-> CASE range = "none" -> None
                          [] range = "minOnly" -> None
                          [] OTHER -> Some(500000),
         co2 |-> IF isMatched THEN Mul(availableMaterials[1].co2, kg) ELSE 0,
         ubp |-> IF isMatched THEN Mul(availableMaterials[1].ubp, kg) ELSE 0,
         kwh |-> IF isMatched THEN Mul(availableMaterials[1].kwh, kg) ELSE 0,
         matchedMaterial |-> matched,
         matchScore |-> IF isMatched THEN Some(0) ELSE None,
         searchTerm |-> Some(toUpperCase(sBeton)),
         availableMaterials |-> availableMaterials]

DensityRows ==
    {DensityRow(u, r, m) :
        u \in {"kg", "m3"}, r \in DensityRanges,
        m \in {sBeton, sNoMatchFoundFor \o sBeton}}

\* densities typed into the editor: below, inside and above the range
TypedDensities == {300000, 450000, 600000}

DensityEdits ==
    UNION {[prevData : [1..n -> DensityRows], index : 0..(n - 1),
            newDensity : TypedDensities] : n \in 1..MaxDensityRows}

PickDensityEdit ==
    /\ fnIn = None
    /\ \E e \in DensityEdits : fnIn' = Some(e)
    /\ UNCHANGED fnOut
    /\ UNCHANGED appVars
    /\ UNCHANGED postVars

ApplyDensityEdit ==
    /\ fnIn # None
    /\ fnOut = None
    /\ fnOut' = Some(UpdateDensityRows(fnIn[1].prevData, fnIn[1].index,
                                       fnIn[1].newDensity))
    /\ UNCHANGED fnIn
    /\ UNCHANGED appVars
    /\ UNCHANGED postVars

NextDensity == PickDensityEdit \/ ApplyDensityEdit

SpecDensity == Init /\ [][NextDensity]_vars

\* the row a density edit was applied to, before and after
EditedBefore == fnIn[1].prevData[fnIn[1].index + 1]

EditedAfter == fnOut[1][fnIn[1].index + 1]

\* the edit is one the editor accepts: both limits known and different
HasOpenRange(row) ==
    row.densityMin # None /\ row.densityMax # None
        /\ row.densityMin # row.densityMax

\* C12: a density edit on a row with a range stores the value clamped into
\* [densityMin, densityMax]; with densityMin = densityMax, or without range
\* information, the whole table, stored density included, stays as it was
C12_DensityClampedOrRejected ==
    fnOut # None =>
        IF HasOpenRange(EditedBefore)
        THEN LET lo == EditedBefore.densityMin[1]
                 hi == EditedBefore.densityMax[1]
                 typed == fnIn[1].newDensity
             IN  EditedAfter.density =
                     Some(IF typed < lo THEN lo
                          ELSE IF typed > hi THEN hi ELSE typed)
        ELSE fnOut[1] = fnIn[1].prevData

\* 600 was typed for the second row of two, whose range is 400..500: 500
\* is stored
C12_Witness ==
    /\ fnOut # None
    /\ fnIn[1].index = 1
    /\ fnIn[1].newDensity = 600000
    /\ EditedBefore.densityMin = Some(400000)
    /\ EditedBefore.densityMax = Some(500000)
    /\ EditedBefore.density = Some(450000)
    /\ EditedAfter.density = Some(500000)

\* the record of the row's available materials whose name the row holds
MatchedFactors(row) ==
    LET named == {k \in 1..Len(row.availableMaterials) :
                     row.availableMaterials[k].name = row.matchedMaterial}
    IN  IF named = {} THEN [co2 |-> 0, ubp |-> 0, kwh |-> 0]
        ELSE row.availableMaterials[CHOOSE k \in named :
                                        \A j \in named : k <= j]

\* C13: after an accepted density edit the row's mass is quantity x the
\* new density when its unit is m3, its co2, ubp and kwh are the matched
\* record's factors x the new mass, and every other row is unchanged
C13_DensityEditRecomputes ==
    (fnOut # None /\ HasOpenRange(EditedBefore)) =>
        /\ EditedBefore.unit = "m3" =>
               EditedAfter.kg =
                   Mul(EditedAfter.quantity, EditedAfter.density[1])
        /\ EditedAfter.co2 = Mul(MatchedFactors(EditedBefore).co2, EditedAfter.kg)
        /\ EditedAfter.ubp = Mul(MatchedFactors(EditedBefore).ubp, EditedAfter.kg)
        /\ EditedAfter.kwh = Mul(MatchedFactors(EditedBefore).kwh, EditedAfter.kg)
        /\ Len(fnOut[1]) = Len(fnIn[1].prevData)
        /\ \A i \in 1..Len(fnOut[1]) :
               i # fnIn[1].index + 1 => fnOut[1][i] = fnIn[1].prevData[i]

\* 2 m3 of Beton at density 450 (900 kg) were edited to density 400: the
\* mass is 800 kg, co2 80, ubp 40000, kwh 400
C13_Witness ==
    /\ fnOut # None
    /\ Len(fnOut[1]) = 2
    /\ EditedBefore.unit = "m3"
    /\ EditedBefore.matchedMaterial = sBeton
    /\ EditedBefore.kg = 900000
    /\ EditedAfter.density = Some(400000)
    /\ EditedAfter.kg = 800000
    /\ EditedAfter.co2 = 80000
    /\ EditedAfter.ubp = 40000000
    /\ EditedAfter.kwh = 400000

-----------------------------------------------------------------------------
(* ResultsTable: the CSV export, and the parser that reads a file back *)

\* the byte order mark U+FEFF, one character of the exported text
BOM == "BOM"

\* the grouping separator toLocaleString("de-CH") puts between thousands,
\* the right single quotation mark U+2019
GroupSeparator == "U+2019"

\* Array.prototype.join of strings
RECURSIVE Join(_, _)
Join(parts, sep) ==
    IF parts = <<>> THEN <<>>
    ELSE IF Len(parts) = 1 THEN parts[1]
    ELSE parts[1] \o sep \o Join(Tail(parts), sep)

\* stringValue.replace(/"/g, '""')
RECURSIVE DoubleQuotes(_)
DoubleQuotes(s) ==
    IF s = <<>> THEN <<>>
    ELSE (IF Head(s) = "\"" THEN <<"\"", "\"">> ELSE <<Head(s)>>)
             \o DoubleQuotes(Tail(s))

escapeCSVMutant(value) ==
    IF Includes(value, <<",">>) \/ Includes(value, <<"\"">>)
    THEN <<"\"">> \o DoubleQuotes(value) \o <<"\"">>
    ELSE value

\* escapeCSV inside handleExportCSV
escapeCSV(value) ==
    IF Includes(value, <<",">>) \/ Includes(value, <<"\"">>)
           \/ Includes(value, <<"'">>)
    THEN <<"\"">> \o DoubleQuotes(value) \o <<"\"">>
    ELSE value

\* the integer digits with a separator before every group of three
RECURSIVE GroupDigits(_)
GroupDigits(digits) ==
    IF Len(digits) <= 3 THEN digits
    ELSE GroupDigits(SubSeq(digits, 1, Len(digits) - 3))
             \o <<GroupSeparator>>
             \o SubSeq(digits, Len(digits) - 2, Len(digits))

\* formatNumber of a number: Math.round(value * 100) / 100, then
\* toLocaleString("de-CH") with zero to two fraction digits
formatNumber(value) ==
    LET hundredths == (value + 5) \div 10
        mag        == Abs(hundredths)
        whole      == mag \div 100
        frac       == mag % 100
        fracDigits == IF frac = 0 THEN <<>>
                      ELSE IF frac % 10 = 0
                      THEN <<".">> \o NatToString(frac \div 10)
                      ELSE <<".">> \o NatToString(frac \div 10)
                               \o NatToString(frac % 10)
    IN  (IF hundredths < 0 THEN <<"-">> ELSE <<>>)
            \o GroupDigits(NatToString(whole)) \o fracDigits

sMatchedMaterial == <<"M", "a", "t", "c", "h", "e", "d", " ",
                      "M", "a", "t", "e", "r", "i", "a", "l">>
sCO2 == <<"C", "O", "2", " ", "(", "k", "g", " ", "C", "O", "2", " ",
          "e", "q", ")">>
sUBP == <<"U", "B", "P", " ", "(", "p", "t", "s", ")">>
sEnergy == <<"E", "n", "e", "r", "g", "y", " ", "(", "k", "W", "h", ")">>

\* the derived columns the export appends to the original headers
DerivedHeaders == <<sMatchedMaterial, sCO2, sUBP, sEnergy>>

\* rowsToExport: the selected indices, or every filtered row when none is
\* selected
RowsToExport(selectedIndices, filteredIndices) ==
    IF Len(selectedIndices) > 0 THEN selectedIndices ELSE filteredIndices

\* the fields of the header line
ExportHeaderFields(originalHeaders) ==
    [j \in 1..(Len(originalHeaders) + 4) |->
        escapeCSV((originalHeaders \o DerivedHeaders)[j])]

\* the fields of the record of row index (0-based):
\* originalRowData[index]?.[header] || "" for each header, then the results
ExportRecordFields(originalHeaders, rowData, data, index) ==
    LET originalData ==
            [j \in 1..Len(originalHeaders) |->
                escapeCSV(IF index + 1 \in DOMAIN rowData
                          THEN rowData[index + 1][originalHeaders[j]]
                          ELSE <<>>)]
        resultData ==
            <<escapeCSV(data[index + 1].matchedMaterial),
              escapeCSV(formatNumber(data[index + 1].co2)),
              escapeCSV(formatNumber(data[index + 1].ubp)),
              escapeCSV(formatNumber(data[index + 1].kwh))>>
    IN  originalData \o resultData

\* the arrays handleExportCSV joins: the header's fields, then each record's
ExportFields(originalHeaders, rowData, data, rowsToExport) ==
    <<ExportHeaderFields(originalHeaders)>>
        \o [k \in 1..Len(rowsToExport) |->
               ExportRecordFields(originalHeaders, rowData, data,
                                  rowsToExport[k])]

\* BOM + csvContent of handleExportCSV
ExportCSV(originalHeaders, rowData, data, rowsToExport) ==
    LET fields == ExportFields(originalHeaders, rowData, data, rowsToExport)
    IN  <<BOM>> \o
        Join([k \in 1..Len(fields) |-> Join(fields[k], <<",">>)], <<"\n">>)

\* text.replace(/""/g, '"'): an escaped quote inside a quoted field
RECURSIVE Undouble(_)
Undouble(s) ==
    IF Len(s) >= 2 /\ s[1] = "\"" /\ s[2] = "\""
    THEN <<"\"">> \o Undouble(SubSeq(s, 3, Len(s)))
    ELSE IF s = <<>> THEN <<>>
    ELSE <<Head(s)>> \o Undouble(Tail(s))

\* Papa.parse(file, {quoteChar: '"', escapeChar: '"', skipEmptyLines: false})
\* of comma-delimited text whose lines end in "\n": the rows of fields, read
\* one field at a time from position i. A field that starts with a quote
\* ends at the first quote that is not half of a doubled quote and that the
\* delimiter, a line break or the end of the text follows; any other field
\* ends before the next delimiter or line break
RECURSIVE PapaRows(_, _, _, _)
PapaRows(text, i, row, rows) ==
    LET n == Len(text)
        quoted == i <= n /\ text[i] = "\""
        QuotesEndingAt(j) ==
            Cardinality({s \in (i + 1)..j :
                            \A p \in s..j : text[p] = "\""})
        closers == {j \in (i + 1)..n :
                       /\ text[j] = "\""
                       /\ j = n \/ text[j + 1] \in {",", "\n"}
                       /\ QuotesEndingAt(j) % 2 = 1}
        close == IF closers = {} THEN n + 1
                 ELSE CHOOSE j \in closers : \A k \in closers : j <= k
        breaks == {j \in i..n : text[j] \in {",", "\n"}}
        plainEnd == IF breaks = {} THEN n + 1
                    ELSE CHOOSE j \in breaks : \A k \in breaks : j <= k
        field == IF quoted THEN Undouble(SubSeq(text, i + 1, close - 1))
                 ELSE SubSeq(text, i, plainEnd - 1)
        stop == IF quoted THEN close + 1 ELSE plainEnd
    IN  IF stop > n THEN Append(rows, Append(row, field))
        ELSE IF text[stop] = ","
        THEN PapaRows(text, stop + 1, Append(row, field), rows)
        ELSE PapaRows(text, stop + 1, <<>>, Append(rows, Append(row, field)))

\* results.data of the parse; a leading byte order mark is not data
PapaParse(text) ==
    LET body == IF text # <<>> /\ Head(text) = BOM THEN Tail(text) ELSE text
    IN  IF body = <<>> THEN <<>> ELSE PapaRows(body, 1, <<>>, <<>>)

-----------------------------------------------------------------------------
(* The export on its own: a parsed file, its processed rows, a selection and
   a filter are drawn, and handleExportCSV builds the text *)

MaxExportRows == 2

\* header lists of an upload; in the second the same name occurs twice
ExportHeaderLists ==
    {<<sElement, sMaterial, sMenge>>, <<sTyp, sTyp, sMenge>>}

\* raw rows of an upload: cells with an apostrophe, commas, a double quote,
\* a line break inside a cell, and empty cells
ExportRawRows ==
    {<<sWall, sBeton, <<"1", "2", "'", "3", "4", "5">>>>,
     <<<<"a", ",", "b">>, sBeton, <<"3", ",", "5">>>>,
     <<<<>>, sHolz, <<"2">>>>,
     <<<<"W", "\"", "x">>, <<>>, <<"1", ".", "5">>>>,
     <<<<"W", "\n", "x">>, sBeton, <<"4">>>>}

\* the cleaned mapping of a form that maps the three columns in order
ExportMapping ==
    [element |-> Some(0), material |-> Some(1), quantity |-> Some(2)]

\* the rows handleColumnMapping stores for csvData: mapped, then matched
ProcessedRows(csv) ==
    fetchLCAData([data |-> [i \in 1..Len(csv) |->
                               MapRow(csv[i], i - 1, ExportMapping, "kg")]],
                 "ok")

\* the ids of the rows a filter lets through, in row order
FilteredLists(n) ==
    {l \in {<<>>} \cup IndexLists(n) :
        \A i \in 1..(Len(l) - 1) : l[i] < l[i + 1]}

ExportInputs ==
    {[headers  |-> h,
      csvData  |-> csv,
      rowData  |-> [i \in 1..Len(csv) |-> RowObject(h, csv[i])],
      data     |-> ProcessedRows(csv),
      selected |-> s,
      filtered |-> f] :
        h \in ExportHeaderLists,
        csv \in UNION {[1..n -> ExportRawRows] : n \in 1..MaxExportRows},
        s \in {<<>>} \cup IndexLists(MaxExportRows),
        f \in FilteredLists(MaxExportRows)}

PickExport ==
    /\ fnIn = None
    /\ \E e \in ExportInputs :
          /\ \A k \in 1..Len(e.selected) : e.selected[k] < Len(e.csvData)
          /\ \A k \in 1..Len(e.filtered) : e.filtered[k] < Len(e.csvData)
          /\ fnIn' = Some(e)
    /\ UNCHANGED fnOut
    /\ UNCHANGED appVars
    /\ UNCHANGED postVars

\* handleExportCSV: the joined arrays and the text handed to the Blob
handleExportCSV ==
    /\ fnIn # None
    /\ fnOut = None
    /\ LET e    == fnIn[1]
           rows == RowsToExport(e.selected, e.filtered)
       IN  fnOut' = Some([rowsToExport |-> rows,
                          fields |-> ExportFields(e.headers, e.rowData,
                                                  e.data, rows),
                          text |-> ExportCSV(e.headers, e.rowData,
                                             e.data, rows)])
    /\ UNCHANGED fnIn
    /\ UNCHANGED appVars
    /\ UNCHANGED postVars

NextExport == PickExport \/ handleExportCSV

SpecExport == Init /\ [][NextExport]_vars

Exported == fnIn # None /\ fnOut # None

\* C14: for every exported record and every original column position j, the
\* j-th exported field is the record's raw cell of column j, quote-escaped,
\* also when a header name occurs more than once
C14_ExportedFieldIsRawCell ==
    Exported =>
        \A k \in 1..Len(fnOut[1].rowsToExport) :
            \A j \in 1..Len(fnIn[1].headers) :
                fnOut[1].fields[k + 1][j] =
                    escapeCSV(CellAt(fnIn[1].csvData[fnOut[1].rowsToExport[k] + 1],
                                     Some(j - 1)))

\* the lines of the exported text after the byte order mark
ExportedLines == Split(Tail(fnOut[1].text), "\n")

\* C15: the text starts with the byte order mark; its first line is the
\* original headers followed by Matched Material, CO2, UBP and Energy; then
\* comes exactly one line per exported record; the exported records are the
\* selected rows when some row is selected, else the rows passing the filter
C15_OneLinePerExportedRecord ==
    Exported =>
        /\ Head(fnOut[1].text) = BOM
        /\ ExportedLines[1] =
               Join([j \in 1..(Len(fnIn[1].headers) + 4) |->
                        escapeCSV((fnIn[1].headers \o
                                   <<sMatchedMaterial, sCO2, sUBP, sEnergy>>)[j])],
                    <<",">>)
        /\ fnOut[1].rowsToExport =
               (IF fnIn[1].selected # <<>> THEN fnIn[1].selected
                ELSE fnIn[1].filtered)
        /\ Len(ExportedLines) = 1 + Len(fnOut[1].rowsToExport)

\* the export text parsed back as an upload: results.data
Reimported == PapaParse(fnOut[1].text)

\* C17: parsing the exported text back and mapping the same element,
\* material and quantity columns gives, row for row, the element, the
\* material and the normalized quantity the exported rows had
C17_ExportRoundTrip ==
    Exported =>
        /\ Len(Reimported) = 1 + Len(fnOut[1].rowsToExport)
        /\ \A k \in 1..Len(fnOut[1].rowsToExport) :
              LET again == MapRow(Reimported[k + 1], k - 1, ExportMapping, "kg")
                  before == fnIn[1].data[fnOut[1].rowsToExport[k] + 1]
              IN  /\ again.element = before.element
                  /\ again.material = before.material
                  /\ again.quantity = before.quantity

-----------------------------------------------------------------------------
(* escapeCSV on its own: a field value is drawn and escaped *)

MaxFieldLen == 3

\* the characters of a field value: a letter, the three characters escapeCSV
\* tests for, and a line break
FieldChars == {"a", ",", "\"", "'", "\n"}

FieldValues == UNION {[1..n -> FieldChars] : n \in 0..MaxFieldLen}

PickField ==
    /\ fnIn = None
    /\ \E v \in FieldValues : fnIn' = Some(v)
    /\ UNCHANGED fnOut
    /\ UNCHANGED appVars
    /\ UNCHANGED postVars

ApplyEscapeCSV ==
    /\ fnIn # None
    /\ fnOut = None
    /\ fnOut' = Some(escapeCSV(fnIn[1]))
    /\ UNCHANGED fnIn
    /\ UNCHANGED appVars
    /\ UNCHANGED postVars

NextEscape == PickField \/ ApplyEscapeCSV

SpecEscape == Init /\ [][NextEscape]_vars

\* the field between its first and last character
Inner(field) == SubSeq(field, 2, Len(field) - 1)

\* every double quote of s stands in a pair, and taking one quote of each
\* pair away leaves v
IsDoubled(s, v) ==
    /\ Len(s) = Len(v) + Count(v, "\"")
    /\ \A i \in 1..Len(v) :
          LET p == i + Count(SubSeq(v, 1, i - 1), "\"")
          IN  /\ s[p] = v[i]
              /\ v[i] = "\"" => s[p + 1] = "\""

\* C16: a field value with a comma, a double quote or an apostrophe is
\* written between double quotes with each of its double quotes doubled;
\* every other value is written as it is
C16_QuotedWhenSpecial ==
    (fnIn # None /\ fnOut # None) =>
        IF \E i \in 1..Len(fnIn[1]) : fnIn[1][i] \in {",", "\"", "'"}
        THEN /\ Len(fnOut[1]) >= 2
             /\ Head(fnOut[1]) = "\""
             /\ fnOut[1][Len(fnOut[1])] = "\""
             /\ IsDoubled(Inner(fnOut[1]), fnIn[1])
        ELSE fnOut[1] = fnIn[1]

C16_Witness ==
    /\ fnIn = Some(<<"a", "\"", "'">>)
    /\ fnOut = Some(<<"\"", "a", "\"", "\"", "'", "\"">>)

-----------------------------------------------------------------------------
(* ResultsTable: grouping, and the sums a group row shows *)

AggregateMutant(columnId, leafRows) ==
    IF leafRows = <<>> THEN 0 ELSE leafRows[1][columnId]

\* leafRows.reduce((sum, r) => sum + (r.getValue(columnId) || 0), 0)
RECURSIVE Aggregate(_, _)
Aggregate(columnId, leafRows) ==
    IF leafRows = <<>> THEN 0
    ELSE leafRows[Len(leafRows)][columnId]
             + Aggregate(columnId, SubSeq(leafRows, 1, Len(leafRows) - 1))

\* the ascending sequence of a set of row positions
RECURSIVE Ascending(_)
Ascending(S) ==
    IF S = {} THEN <<>>
    ELSE LET m == CHOOSE x \in S : \A y \in S : x <= y
         IN  <<m>> \o Ascending(S \ {m})

\* getGroupedRowModel with grouping = [columnId]: one group row per distinct
\* value of the column, in the order the values first occur; its leaf rows
\* are the rows with that value, in row order; its cells show the sums
GroupedRows(rows, columnId) ==
    LET firsts == Ascending({i \in 1..Len(rows) :
                                \A j \in 1..(i - 1) :
                                    rows[j][columnId] # rows[i][columnId]})
        LeafIds(i) == Ascending({j \in 1..Len(rows) :
                                    rows[j][columnId] = rows[i][columnId]})
        LeafRows(i) == [k \in 1..Len(LeafIds(i)) |-> rows[LeafIds(i)[k]]]
    IN  [g \in 1..Len(firsts) |->
            [groupingValue |-> rows[firsts[g]][columnId],
             leafIds  |-> LeafIds(firsts[g]),
             quantity |-> Aggregate("quantity", LeafRows(firsts[g])),
             kg       |-> Aggregate("kg", LeafRows(firsts[g])),
             co2      |-> Aggregate("co2", LeafRows(firsts[g])),
             ubp      |-> Aggregate("ubp", LeafRows(firsts[g])),
             kwh      |-> Aggregate("kwh", LeafRows(firsts[g]))]]

MaxGroupRows == 3

\* the columns the grouping selector offers
GroupingKeys == {"element", "material", "matchedMaterial"}

\* the columns whose group cell is a sum
SummedColumns == {"quantity", "kg", "co2", "ubp", "kwh"}

\* processed rows to draw a table from: two elements, two materials, one
\* of them without an accepted match
GroupRowPool ==
    LET rows == ProcessedRows(<<<<sWall, sBeton, <<"1", "0">>>>,
                                <<sWall, sHolz, <<"4">>>>,
                                <<sRoof, sBeton, <<"2", ",", "5">>>>,
                                <<sRoof, sHolz, <<"1">>>>>>)
    IN  {rows[i] : i \in 1..Len(rows)}

GroupInputs ==
    {[rows |-> r, columnId |-> c] :
        r \in UNION {[1..n -> GroupRowPool] : n \in 1..MaxGroupRows},
        c \in GroupingKeys}

PickGrouping ==
    /\ fnIn = None
    /\ \E g \in GroupInputs : fnIn' = Some(g)
    /\ UNCHANGED fnOut
    /\ UNCHANGED appVars
    /\ UNCHANGED postVars

ApplyGrouping ==
    /\ fnIn # None
    /\ fnOut = None
    /\ fnOut' = Some(GroupedRows(fnIn[1].rows, fnIn[1].columnId))
    /\ UNCHANGED fnIn
    /\ UNCHANGED appVars
    /\ UNCHANGED postVars

NextGroup == PickGrouping \/ ApplyGrouping

SpecGroup == Init /\ [][NextGroup]_vars

\* the sum of f(1), ..., f(n)
RECURSIVE SumTo(_, _)
SumTo(f(_), n) == IF n = 0 THEN 0 ELSE f(n) + SumTo(f, n - 1)

\* C18: under any of the three grouping keys every row is a leaf of exactly
\* one group, and for quantity, kg, co2, ubp and kwh the sums shown by the
\* group rows add up to the sum over the ungrouped rows
C18_AggregationConservation ==
    (fnIn # None /\ fnOut # None) =>
        /\ \A i \in 1..Len(fnIn[1].rows) :
              Cardinality({g \in 1..Len(fnOut[1]) :
                              \E k \in 1..Len(fnOut[1][g].leafIds) :
                                  fnOut[1][g].leafIds[k] = i}) = 1
        /\ \A c \in SummedColumns :
              LET OfGroup(g) == fnOut[1][g][c]
                  OfRow(i) == fnIn[1].rows[i][c]
              IN  SumTo(OfGroup, Len(fnOut[1]))
                      = SumTo(OfRow, Len(fnIn[1].rows))

C18_Witness ==
    /\ fnIn # None /\ fnOut # None
    /\ fnIn[1].columnId = "material"
    /\ Len(fnIn[1].rows) = 3
    /\ Len(fnOut[1]) = 2
    /\ fnOut[1][1].groupingValue = sBeton
    /\ fnOut[1][1].leafIds = <<1, 3>>
    /\ fnOut[1][1].quantity = 12500
    /\ fnOut[1][1].co2 = 1250
    /\ fnOut[1][2].groupingValue = sHolz
    /\ fnOut[1][2].quantity = 4000

-----------------------------------------------------------------------------
(* normalizeCSVNumber on its own, in both variants of the source *)

\* String.prototype.replace(/c/g, d)
ReplaceAll(s, c, d) == [i \in 1..Len(s) |-> IF s[i] = c THEN d ELSE s[i]]

\* String.prototype.indexOf, 0-based, -1 when absent
IndexOf(s, c) ==
    IF \E i \in 1..Len(s) : s[i] = c
    THEN (CHOOSE i \in 1..Len(s) :
              s[i] = c /\ \A j \in 1..(i - 1) : s[j] # c) - 1
    ELSE -1

\* normalizeCSVNumber(value), the variant of ColumnMapper.tsx: several
\* separators of one kind are all thousands separators, a single one is the
\* decimal separator when one to three characters follow it
normalizeCSVNumberColumnMapper(value) ==
    IF value = <<>> \/ Trim(value) = <<>> THEN 0
    ELSE LET n0 == RemoveAll(RemoveAll(Trim(value), Apostrophes), {" ", "\t"})
             dotCount == Count(n0, ".")
             commaCount == Count(n0, ",")
             lastDotIndex == LastIndexOf(n0, ".")
             lastCommaIndex == LastIndexOf(n0, ",")
             charsAfter(c) == Len(n0) - IndexOf(n0, c) - 1
             normalized ==
                 IF dotCount > 0 /\ commaCount > 0
                 THEN IF lastCommaIndex > lastDotIndex
                      THEN ReplaceAll(RemoveAll(n0, {"."}), ",", ".")
                      ELSE RemoveAll(n0, {","})
                 ELSE IF commaCount > 1
                 THEN RemoveAll(n0, {","})
                 ELSE IF commaCount = 1 /\ dotCount = 0
                 THEN IF charsAfter(",") <= 3 /\ charsAfter(",") > 0
                      THEN ReplaceAll(n0, ",", ".")
                      ELSE RemoveAll(n0, {","})
                 ELSE IF dotCount > 1 /\ commaCount = 0
                 THEN RemoveAll(n0, {"."})
                 ELSE IF dotCount = 1 /\ commaCount = 0
                 THEN IF charsAfter(".") <= 3 /\ charsAfter(".") > 0
                      THEN n0
                      ELSE RemoveAll(n0, {"."})
                 ELSE n0
             parsed == parseFloat(normalized)
         IN  IF parsed = None THEN 0 ELSE parsed[1]

MaxCellLen == 4

\* the two files of the source that define normalizeCSVNumber
NormalizeVariants == {"part_000", "ColumnMapper.tsx"}

\* the characters of a drawn cell: digits, both separators, an ASCII and a
\* typographic apostrophe, a space and a letter
CellChars == {"0", "1", ".", ",", "'", "U+2019", " ", "a"}

s37184 == <<"3", "7", "'", "1", "8", "4", ".", "0", "9", "0">>
s1234567 == <<"1", ".", "2", "3", "4", ".", "5", "6", "7">>
s12345 == <<"1", "2", " ", "3", "4", "5">>
s35 == <<"3", ",", "5">>

s37184Comma == <<"3", "7", ".", "1", "8", "4", ",", "0", "9", "0">>
s37184Dot == <<"3", "7", ",", "1", "8", "4", ".", "0", "9", "0">>
s1Comma2345 == <<"1", ",", "2", "3", "4", "5">>
s1Dot2345 == <<"1", ".", "2", "3", "4", "5">>

\* every cell of up to MaxCellLen characters, and some longer cells
CellValues ==
    UNION {[1..n -> CellChars] : n \in 0..MaxCellLen}
        \cup {s37184, s1234567, s12345, s35}
        \cup {s37184Comma, s37184Dot, s1Comma2345, s1Dot2345}

NormalizeWithoutCommas(variant, value) ==
    IF variant = "part_000"
    THEN normalizeCSVNumber(RemoveAll(value, {","}))
    ELSE normalizeCSVNumberColumnMapper(RemoveAll(value, {","}))

NormalizeWithMutant(variant, value) ==
    IF variant = "part_000"
    THEN normalizeCSVNumber(RemoveAll(value, {"a"}))
    ELSE normalizeCSVNumberColumnMapper(RemoveAll(value, {"a"}))

\* the call normalizeCSVNumber(rawQuantity) in the variant's file
NormalizeWith(variant, value) ==
    IF variant = "part_000"
    THEN normalizeCSVNumber(value)
    ELSE normalizeCSVNumberColumnMapper(value)

PickCell ==
    /\ fnIn = None
    /\ \E variant \in NormalizeVariants, value \in CellValues :
          fnIn' = Some([variant |-> variant, value |-> value])
    /\ UNCHANGED fnOut
    /\ UNCHANGED appVars
    /\ UNCHANGED postVars

ApplyNormalize ==
    /\ fnIn # None
    /\ fnOut = None
    /\ fnOut' = Some(NormalizeWith(fnIn[1].variant, fnIn[1].value))
    /\ UNCHANGED fnIn
    /\ UNCHANGED appVars
    /\ UNCHANGED postVars

NextNormalize == PickCell \/ ApplyNormalize

SpecNormalize == Init /\ [][NextNormalize]_vars

Normalized == fnIn # None /\ fnOut # None

\* the drawn cell without apostrophes, spaces and tabs
Stripped == RemoveAll(RemoveAll(fnIn[1].value, Apostrophes), {" ", "\t"})

\* C19: normalize returns a number for every cell, and exactly 0 for a cell
\* that is empty, only whitespace, or holds no parsable number (no digit at
\* all, or text before the first digit)
C19_NormalizeIsTotal ==
    Normalized =>
        /\ fnOut[1] \in Int
        /\ (\/ Stripped = <<>>
            \/ \A i \in 1..Len(Stripped) : ~IsDigit(Stripped[i])
            \/ Head(Stripped) = "a") => fnOut[1] = 0

C19_Witness ==
    /\ Normalized
    /\ fnIn[1].value = <<"a", "1", "0">>
    /\ fnOut[1] = 0

\* the value of the digits of s, every other character left out
DigitsOnlyValue(s) ==
    LET d == SelectSeq(s, IsDigit)
    IN  Scale * DigitsValue(d, 1, Len(d))

\* C20: apostrophes and whitespace are removed as thousands separators, a
\* cell with two or more dots and no comma loses every dot, and the four
\* examples give 37184.09, 1234567, 12345 and 3.5
C20_GroupedMagnitude ==
    Normalized =>
        /\ (Stripped # <<>> /\ \A i \in 1..Len(Stripped) : IsDigit(Stripped[i]))
               => fnOut[1] = DigitsOnlyValue(Stripped)
        /\ (/\ Count(Stripped, ".") >= 2
            /\ \A i \in 1..Len(Stripped) :
                   IsDigit(Stripped[i]) \/ Stripped[i] = "."
            /\ IsDigit(Head(Stripped)))
               => fnOut[1] = DigitsOnlyValue(Stripped)
        /\ fnIn[1].value = s37184 => fnOut[1] = 37184090
        /\ fnIn[1].value = s1234567 => fnOut[1] = 1234567000
        /\ fnIn[1].value = s12345 => fnOut[1] = 12345000
        /\ fnIn[1].value = s35 => fnOut[1] = 3500

-----------------------------------------------------------------------------
(* ColumnMapper on its own: headers are drawn, the form mounts with the
   detected columns, the user picks options, and the form is submitted *)

MaxColumns == 3

sIfcTyp == <<"I", "f", "c", ":", "T", "y", "p">>

sVolumen == <<"V", "o", "l", "u", "m", "e", "n">>

\* header texts of an upload; one holds a colon, one a volume keyword
HeaderTexts == {sElement, sMaterial, sMenge, sTyp, sIfcTyp, sVolumen}

VolumeKeywords ==
    << <<"v", "o", "l", "u", "m", "e", "n">>,
       <<"v", "o", "l", "u", "m", "e">>,
       <<"m", "3">>,
       <<"m", "³">>,
       <<"g", "r", "o", "s", "s", "v", "o", "l", "u", "m", "e">>,
       <<"n", "e", "t", "v", "o", "l", "u", "m", "e">> >>

MassKeywords ==
    << <<"m", "a", "s", "s", "e">>,
       <<"m", "a", "s", "s">>,
       <<"w", "e", "i", "g", "h", "t">>,
       <<"g", "e", "w", "i", "c", "h", "t">>,
       <<"k", "g">> >>

\* lowerColumns.some((col) => col.includes(k1) || col.includes(k2) || ...)
SomeColumnIncludes(cols, keywords) ==
    \E i \in 1..Len(cols) : \E k \in 1..Len(keywords) :
        Includes(toLowerCase(cols[i]), keywords[k])

\* detectUnit(columns)
detectUnit(cols) ==
    IF SomeColumnIncludes(cols, VolumeKeywords)
           /\ ~SomeColumnIncludes(cols, MassKeywords)
    THEN "m3" ELSE "kg"

\* detectedUnit of a ColumnMapper given the initialUnit prop, an optional
\* value: the parameter default `initialUnit = "kg"` replaces undefined
\* before the test initialUnit !== undefined
detectedUnit(cols, initialUnitProp) ==
    LET initialUnitParam ==
            IF initialUnitProp = None THEN Some("kg") ELSE initialUnitProp
    IN  IF initialUnitParam # None THEN initialUnitParam[1]
        ELSE detectUnit(cols)

HeaderLists == UNION {[1..n -> HeaderTexts] : n \in 1..MaxColumns}

MapperFields == {"element", "material", "quantity"}

\* the option values of a select: "" and `${column}:${index}` per column
OptionValues(cols) ==
    {<<>>} \cup {ColumnValue(cols, i) : i \in 0..(Len(cols) - 1)}

\* the ColumnMapper mounts for a fresh upload: no initialMapping, and
\* initialUnit = mappedData[0]?.unit is undefined
MountForm ==
    /\ fnIn = None
    /\ \E cols \in HeaderLists :
          fnIn' = Some([columns |-> cols,
                        mapping |-> getInitialMapping(cols, None),
                        unit |-> detectedUnit(cols, None)])
    /\ UNCHANGED fnOut
    /\ UNCHANGED appVars
    /\ UNCHANGED postVars

\* a select's onChange: setMapping((prev) => ({...prev, [field]: value}))
ChooseOption ==
    /\ fnIn # None
    /\ fnOut = None
    /\ \E field \in MapperFields, value \in OptionValues(fnIn[1].columns) :
          /\ fnIn[1].mapping[field] # value
          /\ fnIn' = Some([fnIn[1] EXCEPT !.mapping[field] = value])
    /\ UNCHANGED fnOut
    /\ UNCHANGED appVars
    /\ UNCHANGED postVars

\* the form's onSubmit: every select is `required`, so an empty value blocks
\* it; otherwise onMap(cleanMapping, unit) is called
SubmitForm ==
    /\ fnIn # None
    /\ fnOut = None
    /\ \A field \in MapperFields : fnIn[1].mapping[field] # <<>>
    /\ fnOut' = Some(cleanMapping(fnIn[1].mapping))
    /\ UNCHANGED fnIn
    /\ UNCHANGED appVars
    /\ UNCHANGED postVars

NextForm == MountForm \/ ChooseOption \/ SubmitForm

SpecForm == Init /\ [][NextForm]_vars

\* the 0-based position of the option that carries value
OptionPosition(cols, value) ==
    CHOOSE i \in 0..(Len(cols) - 1) : ColumnValue(cols, i) = value

\* C21: a submitted mapping gives, for each of element, material and
\* quantity, an integer in 0..len(headers)-1 that is the position of the
\* selected (or detected) column, for any header texts; no submission
\* happens while a field is unassigned
C21_SubmittedIndicesArePositions ==
    (fnIn # None /\ fnOut # None) =>
        \A field \in MapperFields :
            /\ fnIn[1].mapping[field] # <<>>
            /\ fnOut[1][field] # None
            /\ fnOut[1][field][1] \in 0..(Len(fnIn[1].columns) - 1)
            /\ fnOut[1][field][1] =
                   OptionPosition(fnIn[1].columns, fnIn[1].mapping[field])

\* C22: a mapper opened for a fresh upload has the default unit m3 when some
\* header contains a volume keyword and none contains a mass keyword, and
\* kg otherwise
C22_DefaultUnitDetected ==
    (fnIn # None) =>
        fnIn[1].unit =
            (IF /\ \E i \in 1..Len(fnIn[1].columns) :
                       \E k \in 1..Len(VolumeKeywords) :
                           Includes(toLowerCase(fnIn[1].columns[i]),
                                    VolumeKeywords[k])
                /\ ~\E i \in 1..Len(fnIn[1].columns) :
                       \E k \in 1..Len(MassKeywords) :
                           Includes(toLowerCase(fnIn[1].columns[i]),
                                    MassKeywords[k])
             THEN "m3" ELSE "kg")

-----------------------------------------------------------------------------
(* detectColumn on its own: headers and a field's keyword list are drawn *)

MaxDetectColumns == 3

sBauteil == <<"B", "a", "u", "t", "e", "i", "l">>
sTeil == <<"T", "e", "i", "l">>

\* header texts with keywords of different priority, and one with none
DetectHeaders ==
    {sElement, sBauteil, sTeil, sMaterial, sMenge, sVolumen, sTyp}

\* the keyword lists getInitialMapping passes to detectColumn
KeywordLists == {ElementKeywords, MaterialKeywords, QuantityKeywords}

PickHeaders ==
    /\ fnIn = None
    /\ \E cols \in UNION {[1..n -> DetectHeaders] : n \in 1..MaxDetectColumns},
          keywords \in KeywordLists :
          fnIn' = Some([columns |-> cols, keywords |-> keywords])
    /\ UNCHANGED fnOut
    /\ UNCHANGED appVars
    /\ UNCHANGED postVars

ApplyDetectColumn ==
    /\ fnIn # None
    /\ fnOut = None
    /\ fnOut' = Some(detectColumn(fnIn[1].columns, fnIn[1].keywords))
    /\ UNCHANGED fnIn
    /\ UNCHANGED appVars
    /\ UNCHANGED postVars

NextDetect == PickHeaders \/ ApplyDetectColumn

SpecDetect == Init /\ [][NextDetect]_vars

\* header i of the drawn list contains keyword k, whatever the case
HeaderHasKeyword(i, k) ==
    Includes(toLowerCase(fnIn[1].columns[i]), toLowerCase(fnIn[1].keywords[k]))

\* the keyword positions contained in some header
MatchingKeywords ==
    {k \in 1..Len(fnIn[1].keywords) :
        \E i \in 1..Len(fnIn[1].columns) : HeaderHasKeyword(i, k)}

\* C25: detection returns the lowest-index header containing the earliest
\* keyword of the list that any header contains, so keyword priority wins
\* over header position; the field is unset when no header contains a keyword
C25_KeywordPriorityThenPosition ==
    (fnIn # None /\ fnOut # None) =>
        IF MatchingKeywords = {} THEN fnOut[1] = <<>>
        ELSE \E k \in MatchingKeywords, i \in 1..Len(fnIn[1].columns) :
                /\ \A k2 \in MatchingKeywords : k <= k2
                /\ HeaderHasKeyword(i, k)
                /\ \A j \in 1..(i - 1) : ~HeaderHasKeyword(j, k)
                /\ fnOut[1] = fnIn[1].columns[i] \o <<":">> \o NatToString(i - 1)

C25_Witness ==
    /\ fnIn # None /\ fnOut # None
    /\ fnIn[1].columns = <<sTeil, sBauteil, sElement>>
    /\ fnIn[1].keywords = ElementKeywords
    /\ fnOut[1] = sElement \o <<":", "2">>

\* the characters of Stripped are digits, dots and commas only
OnlyDigitsAndSeparators ==
    \A i \in 1..Len(Stripped) : IsDigit(Stripped[i]) \/ Stripped[i] \in {".", ","}

\* the number whose integer digits are the digits of s before position p and
\* whose fraction digits are the digits after it
ValueSplitAt(s, p) ==
    LET whole == SelectSeq(SubSeq(s, 1, p - 1), IsDigit)
        frac  == SelectSeq(SubSeq(s, p + 1, Len(s)), IsDigit)
    IN  Scale * DigitsValue(whole, 1, Len(whole))
            + FractionValue(frac, 1, Len(frac))

\* the 1-based position of the last occurrence of c in s
LastPosition(s, c) ==
    CHOOSE i \in 1..Len(s) : s[i] = c /\ \A j \in (i + 1)..Len(s) : s[j] # c

\* C23: with both a dot and a comma in the cleaned cell, the separator whose
\* last occurrence comes later is the decimal point and every occurrence of
\* the other is removed (stated for cells where the decimal separator occurs
\* once); "37.184,090" and "37,184.090" both give 37184.09
C23_LastSeparatorIsDecimal ==
    Normalized =>
        /\ (/\ OnlyDigitsAndSeparators
            /\ Count(Stripped, ".") > 0
            /\ Count(Stripped, ",") > 0)
               => LET dec == IF LastPosition(Stripped, ",")
                                    > LastPosition(Stripped, ".")
                             THEN "," ELSE "."
                  IN  Count(Stripped, dec) = 1
                          => fnOut[1] = ValueSplitAt(Stripped,
                                            LastPosition(Stripped, dec))
        /\ fnIn[1].value = s37184Comma => fnOut[1] = 37184090
        /\ fnIn[1].value = s37184Dot => fnOut[1] = 37184090

C23_Witness ==
    /\ Normalized
    /\ fnIn[1].value = s37184Comma
    /\ fnIn[1].variant = "part_000"
    /\ fnOut[1] = 37184090

\* C24: with exactly one separator in the cleaned cell (one comma and no dot,
\* or one dot and no comma) it is the decimal point when three or fewer
\* digits follow it, and is removed as a thousands separator otherwise
C24_SingleSeparatorHeuristic ==
    (/\ Normalized
     /\ OnlyDigitsAndSeparators
     /\ Count(Stripped, ".") + Count(Stripped, ",") = 1)
        => LET p == CHOOSE i \in 1..Len(Stripped) :
                        Stripped[i] \in {".", ","}
           IN  IF Len(Stripped) - p <= 3
               THEN fnOut[1] = ValueSplitAt(Stripped, p)
               ELSE fnOut[1] = DigitsOnlyValue(Stripped)

-----------------------------------------------------------------------------
(* The calculator again: re-mapping, loading, late responses, row pairing *)

\* C26: when results exist and 'adjust mapping' opens the mapper, after any
\* material updates, density edits and deletions, the column pre-selected
\* for each of element, material and quantity is the column index of the
\* previous submission
C26_RemappingContinuity ==
    (last.op = "adjust" /\ last.outcome = "opened") =>
        /\ submitted # None
        /\ \A field \in {"element", "material", "quantity"} :
              /\ submitted[1].mapping[field] # None
              /\ mapper.mapping[field] =
                     ColumnValue(columns, submitted[1].mapping[field][1])

-----------------------------------------------------------------------------
(* The debounced search filter of the results table                        *)

\* keystrokes (and clicks on the clear button) per behaviour
MaxKeystrokes == 3

\* useDebounce(globalFilter, 300): the delay, in clock ticks of 100 ms
DebounceTicks == 3

\* texts the search input can hold; the empty one is also what the clear
\* button sets
SearchTexts == {<<>>, <<"a">>, <<"a", "b">>, <<"b">>}

\* setTimeout(() => setDebouncedValue(value), delay): one more pending timer
setTimeout(timers, id, value, delay) ==
    timers \cup {[id |-> id, value |-> value, remaining |-> delay]}

clearTimeoutMutant(timers, handler) == timers

\* clearTimeout(handler): the timer is no longer pending; nothing happens
\* when it has already fired
clearTimeout(timers, handler) == {t \in timers : t.id # handler}

\* the table mounts: globalFilter = "", debouncedValue = value, and the
\* effect of useDebounce starts its first timer.  fnOut keeps what an
\* observer of the input has seen: the number of keystrokes and for how
\* many ticks (at most DebounceTicks) the input has held its present text
MountTable ==
    /\ fnIn = None
    /\ fnIn' = Some([globalFilter |-> <<>>,
                     debouncedValue |-> <<>>,
                     handler |-> 0,
                     timers |-> setTimeout({}, 0, <<>>, DebounceTicks)])
    /\ fnOut' = Some([keystrokes |-> 0, heldFor |-> 0])
    /\ UNCHANGED appVars
    /\ UNCHANGED postVars

\* onChange / clear button: setGlobalFilter(text).  The value changed, so
\* on the re-render the effect's cleanup clears its timer and the effect
\* starts a new one for the new value
TypeText(text) ==
    /\ fnIn # None
    /\ fnOut[1].keystrokes < MaxKeystrokes
    /\ text # fnIn[1].globalFilter
    /\ LET id == fnIn[1].handler + 1
       IN  fnIn' = Some([fnIn[1] EXCEPT
                  !.globalFilter = text,
                  !.handler = id,
                  !.timers = setTimeout(clearTimeout(fnIn[1].timers,
                                                     fnIn[1].handler),
                                        id, text, DebounceTicks)])
    /\ fnOut' = Some([keystrokes |-> fnOut[1].keystrokes + 1, heldFor |-> 0])
    /\ UNCHANGED appVars
    /\ UNCHANGED postVars

\* 100 ms pass without a keystroke; a timer that is due stays pending until
\* its callback runs
ClockTick ==
    /\ fnIn # None
    /\ \/ fnOut[1].heldFor < DebounceTicks
       \/ \E t \in fnIn[1].timers : t.remaining > 0
    /\ fnIn' = Some([fnIn[1] EXCEPT
           !.timers = {[t EXCEPT !.remaining = Max(t.remaining - 1, 0)] :
                           t \in fnIn[1].timers}])
    /\ fnOut' = Some([fnOut[1] EXCEPT
           !.heldFor = Min(fnOut[1].heldFor + 1, DebounceTicks)])
    /\ UNCHANGED appVars
    /\ UNCHANGED postVars

\* the callback of a due timer: setDebouncedValue(value).  The dependencies
\* [value, delay] did not change, so the effect does not run again
TimerFires ==
    /\ fnIn # None
    /\ \E t \in fnIn[1].timers :
          /\ t.remaining = 0
          /\ fnIn' = Some([fnIn[1] EXCEPT
                 !.debouncedValue = t.value,
                 !.timers = fnIn[1].timers \ {t}])
    /\ UNCHANGED fnOut
    /\ UNCHANGED appVars
    /\ UNCHANGED postVars

NextFilter ==
    \/ MountTable
    \/ \E text \in SearchTexts : TypeText(text)
    \/ ClockTick
    \/ TimerFires

SpecFilter == Init /\ [][NextFilter]_vars

\* timers run: the clock advances and a due callback is eventually called
SpecFilterFair ==
    /\ SpecFilter
    /\ WF_vars(MountTable)
    /\ WF_vars(ClockTick)
    /\ WF_vars(TimerFires)

\* the filter handed to the table changes in this step
FilterApplied ==
    /\ fnIn # None
    /\ fnIn' # None
    /\ fnIn'[1].debouncedValue # fnIn[1].debouncedValue

\* C27: the applied filter changes only to the text the input holds and has
\* held for the whole debounce window without a keystroke (so a text
\* superseded within the window is never applied), and once typing has
\* stopped the applied filter eventually equals the last typed text for good
C27_DebouncedFilter ==
    /\ [][FilterApplied =>
            /\ fnIn'[1].debouncedValue = fnIn[1].globalFilter
            /\ fnIn'[1].globalFilter = fnIn[1].globalFilter
            /\ fnOut[1].heldFor >= DebounceTicks]_vars
    /\ <>[](/\ fnIn # None
            /\ fnIn[1].debouncedValue = fnIn[1].globalFilter)

\* a text typed after another one was superseded has been applied
C27_Witness ==
    /\ fnIn # None
    /\ fnOut # None
    /\ fnOut[1].keystrokes >= 2
    /\ fnIn[1].handler >= 2
    /\ fnIn[1].globalFilter = <<"a", "b">>
    /\ fnIn[1].debouncedValue = <<"a", "b">>
    /\ fnOut[1].heldFor = DebounceTicks

\* C28: while a catalog-match request is outstanding isLoading is true, and
\* once the last outstanding request has been handled isLoading is false
C28_LoadingCoversRequest ==
    /\ (inflight # {}) => isLoading
    /\ (inflight = {}) => ~isLoading

\* the response handled last belongs to a submission that was followed by
\* another one whose response has been handled before
LateResponseHandled ==
    /\ last.op = "response"
    /\ last.id < nextReq
    /\ \A r \in inflight : r.id < last.id

\* C29: a late response is not discarded: when the response of the earlier
\* of two submissions is handled after the response of the later one, the
\* processed rows are those of the earlier submission, with its elements,
\* quantities and unit
C29_LateResponseWins ==
    LateResponseHandled =>
        /\ Len(mappedData) = Len(last.req)
        /\ \A i \in 1..Len(mappedData) :
              /\ mappedData[i].element = last.req[i].element
              /\ mappedData[i].quantity = last.req[i].quantity
              /\ mappedData[i].unit = last.req[i].unit

\* the earlier submission was in m3, the later one in kg, and the rows on
\* display are in m3
C29_Witness ==
    /\ LateResponseHandled
    /\ inflight = {}
    /\ submitted # None
    /\ submitted[1].unit = "kg"
    /\ Len(mappedData) > 0
    /\ \A i \in 1..Len(mappedData) : mappedData[i].unit = "m3"

\* the element of a processed row is a cell of the raw row it was built
\* from, or the placeholder that stands for an empty cell
BuiltFrom(row, original) ==
    \/ \E h \in DOMAIN original : original[h] # <<>> /\ row.element = original[h]
    \/ /\ \E h \in DOMAIN original : original[h] = <<>>
       /\ Len(row.element) > Len(sUnknownElement)
       /\ SubSeq(row.element, 1, Len(sUnknownElement)) = sUnknownElement

\* C30: once results exist, after any sequence of uploads (a second one
\* included), submissions, re-mappings, material updates, density edits and
\* deletions, mappedData and originalRowData have the same length and
\* originalRowData[i] is the raw row from which mappedData[i] was built
C30_RowsStayPaired ==
    SomeRequestCompleted =>
        /\ Len(mappedData) = Len(originalRowData)
        /\ \A i \in 1..Len(mappedData) :
              BuiltFrom(mappedData[i], originalRowData[i])

====
